---- MODULE Spec2Model ----
(***************************************************************************)
(* Model of the oxfmt language-server formatter                            *)
(* (apps/oxfmt/src/lsp/server_formatter.rs, lsp/mod.rs,                    *)
(* lsp/external_formatter_bridge.rs, core/external_formatter.rs).          *)
(*                                                                         *)
(* A text is a sequence of Unicode scalar values; its bytes are the UTF-8  *)
(* encoding of these, computed by Utf8.  Byte offsets are 0-based as in    *)
(* the source, sequences are 1-based as in TLA+.                           *)
(***************************************************************************)
EXTENDS Integers, Sequences, FiniteSets, TLC

VARIABLES
    old,            \* SpecEdit: source_text handed to compute_minimal_text_edit
    new,            \* SpecEdit: formatted_text handed to compute_minimal_text_edit
    debugBuild,     \* whether debug assertions are compiled in (debug_assert!)
    edit,           \* SpecEdit: outcome of the call, or NotCalled
    builderBridge,  \* ServerFormatterBuilder.external_bridge is Some
    phase,          \* host: "new", "serving" or "stopped"
    tool,           \* host: the ServerFormatter it holds (an Option)
    pending,        \* host: what a handler returned (and did), not yet applied
    calls,          \* history: init/create/delete calls made on the bridge
    built,          \* history: number of instances built so far
    dropped,        \* history: ids of the instances dropped so far
    issued,         \* foreign engine: number of workspace ids handed out
    resp,           \* host: outcome of run_format not yet delivered
    building,       \* host: the build that waits in a bridge call (an Option)
    inflight,       \* host: the requests that wait in format_file
    dropping,       \* host: the drop that waits in delete_workspace (an Option)
    bpc,            \* SpecBridge: where each caller is in its bridge call
    bop,            \* SpecBridge: the bridge operation each caller runs
    bslot,          \* SpecBridge: whether each caller holds a worker slot
    bpromise,       \* SpecBridge: state of the foreign promise of each call
    bvalue,         \* SpecBridge: what the promise of each call settled with
    bdispatched,    \* SpecBridge: times each call dispatched the foreign callback
    bresult,        \* SpecBridge: what each call returned
    configOptions,  \* SpecConfig: the options JSON of the build
    rootFiles,      \* SpecConfig: the files that exist in the project root
    found           \* SpecConfig: the config file loaded and the patterns reported

editVars == <<old, new, debugBuild, edit>>
lifeVars ==
    <<builderBridge, phase, tool, pending, calls, built, dropped, issued, resp, building,
      inflight, dropping>>
bridgeVars == <<bpc, bop, bslot, bpromise, bvalue, bdispatched, bresult>>
configVars == <<configOptions, rootFiles, found>>
vars == <<editVars, lifeVars, bridgeVars, configVars>>

\* ------------------------------------------------------------------ bounds

\* Longest text (in codepoints) handed to compute_minimal_text_edit.
MaxLen == 3

\* ------------------------------------------------------------------- texts

\* 'a', '\n', U+00E9 (bytes C3 A9) and U+00A9 (bytes C2 A9): an ASCII
\* letter, a whitespace character and two codepoints that differ in their
\* first byte and share their last.
Alphabet == {97, 10, 233, 169}

TextsUpTo(n) == UNION {[1..k -> Alphabet] : k \in 0..n}

Texts == TextsUpTo(MaxLen)

Min(a, b) == IF a <= b THEN a ELSE b

\* char::len_utf8
len_utf8(c) ==
    IF c < 128 THEN 1
    ELSE IF c < 2048 THEN 2
    ELSE IF c < 65536 THEN 3
    ELSE 4

\* The UTF-8 encoding of one scalar value.
Utf8(c) ==
    IF c < 128 THEN <<c>>
    ELSE IF c < 2048 THEN <<192 + (c \div 64), 128 + (c % 64)>>
    ELSE IF c < 65536 THEN
        <<224 + (c \div 4096), 128 + ((c \div 64) % 64), 128 + (c % 64)>>
    ELSE
        <<240 + (c \div 262144), 128 + ((c \div 4096) % 64),
          128 + ((c \div 64) % 64), 128 + (c % 64)>>

\* str::as_bytes
RECURSIVE as_bytes(_)
as_bytes(t) ==
    IF t = <<>> THEN <<>> ELSE Utf8(Head(t)) \o as_bytes(Tail(t))

\* str::len (a byte length)
ByteLen(t) == Len(as_bytes(t))

\* Byte length of the first k codepoints of t.
RECURSIVE PrefixBytes(_, _)
PrefixBytes(t, k) ==
    IF k = 0 THEN 0 ELSE len_utf8(t[k]) + PrefixBytes(t, k - 1)

\* str::is_char_boundary
is_char_boundary(t, i) == \E k \in 0..Len(t) : PrefixBytes(t, k) = i

\* bytes[from..to), 0-based half-open as in the source
Slice(b, from, to) == SubSeq(b, from + 1, to)

\* ------------------------------------------------ compute_minimal_text_edit

\* The prefix loop counting one per matching char instead of its len_utf8.
RECURSIVE PrefixLoop_counting_chars(_, _, _, _)
PrefixLoop_counting_chars(s, f, k, prefix_byte) ==
    IF k <= Len(s) /\ k <= Len(f) /\ s[k] = f[k]
    THEN PrefixLoop_counting_chars(s, f, k + 1, prefix_byte + 1)
    ELSE prefix_byte

\* The loop over source_text.chars().zip(formatted_text.chars()): adds
\* len_utf8 of every leading pair of equal chars, stops at the first
\* difference or at the end of the shorter text.
RECURSIVE PrefixLoop(_, _, _, _)
PrefixLoop(s, f, k, prefix_byte) ==
    IF k <= Len(s) /\ k <= Len(f) /\ s[k] = f[k]
    THEN PrefixLoop(s, f, k + 1, prefix_byte + len_utf8(s[k]))
    ELSE prefix_byte

\* The suffix loop bounded by the lengths alone, not by what the prefix left.
RECURSIVE SuffixLoop_into_prefix(_, _, _, _)
SuffixLoop_into_prefix(src_bytes, fmt_bytes, prefix_byte, suffix_byte) ==
    LET src_len == Len(src_bytes)
        fmt_len == Len(fmt_bytes)
    IN  IF /\ suffix_byte < src_len
           /\ suffix_byte < fmt_len
           /\ src_bytes[(src_len - 1 - suffix_byte) + 1]
                = fmt_bytes[(fmt_len - 1 - suffix_byte) + 1]
        THEN SuffixLoop_into_prefix(src_bytes, fmt_bytes, prefix_byte, suffix_byte + 1)
        ELSE suffix_byte

\* The while loop over the two byte arrays, from their ends.
RECURSIVE SuffixLoop(_, _, _, _)
SuffixLoop(src_bytes, fmt_bytes, prefix_byte, suffix_byte) ==
    LET src_len == Len(src_bytes)
        fmt_len == Len(fmt_bytes)
    IN  IF /\ suffix_byte < src_len - prefix_byte
           /\ suffix_byte < fmt_len - prefix_byte
           /\ src_bytes[(src_len - 1 - suffix_byte) + 1]
                = fmt_bytes[(fmt_len - 1 - suffix_byte) + 1]
        THEN SuffixLoop(src_bytes, fmt_bytes, prefix_byte, suffix_byte + 1)
        ELSE suffix_byte

\* The outcome of one call.  status "assert" is the failed debug_assert!,
\* status "slice" the panic of &formatted_text[a..b] on an offset that is
\* not a char boundary; start/end/replacement_end are the values the code
\* has computed by then.
compute_minimal_text_edit(source_text, formatted_text, debug) ==
    LET prefix_byte == PrefixLoop(source_text, formatted_text, 1, 0)
        src_bytes   == as_bytes(source_text)
        fmt_bytes   == as_bytes(formatted_text)
        src_len     == Len(src_bytes)
        fmt_len     == Len(fmt_bytes)
        suffix_byte == SuffixLoop(src_bytes, fmt_bytes, prefix_byte, 0)
        start       == prefix_byte
        end         == src_len - suffix_byte
        replacement_start == prefix_byte
        replacement_end   == fmt_len - suffix_byte
        sliceOk     == /\ is_char_boundary(formatted_text, replacement_start)
                       /\ is_char_boundary(formatted_text, replacement_end)
    IN  IF debug /\ source_text = formatted_text
        THEN [status |-> "assert", start |-> 0, end |-> 0,
              replacement_end |-> 0, replacement |-> <<>>]
        ELSE [status |-> IF sliceOk THEN "ok" ELSE "slice",
              start |-> start, end |-> end,
              replacement_end |-> replacement_end,
              replacement |-> IF sliceOk
                              THEN Slice(fmt_bytes, replacement_start, replacement_end)
                              ELSE <<>>]

\* ---------------------------------------------------------------- SpecEdit
\* compute_minimal_text_edit applied to every pair of bounded texts.

NotCalled == [status |-> "not_called"]

\* No configuration search is modelled.
NoSearch ==
    /\ configOptions = <<>>
    /\ rootFiles = {}
    /\ found = <<>>

InitEdit ==
    /\ old \in Texts
    /\ new \in Texts
    /\ debugBuild \in BOOLEAN
    /\ edit = NotCalled
    /\ NoSearch
    /\ builderBridge = FALSE
    /\ phase = "new"
    /\ tool = <<>>
    /\ pending = <<>>
    /\ calls = <<>>
    /\ built = 0
    /\ dropped = {}
    /\ issued = 0
    /\ resp = <<>>
    /\ building = <<>>
    /\ inflight = {}
    /\ dropping = <<>>
    /\ bpc = <<>>
    /\ bop = <<>>
    /\ bslot = <<>>
    /\ bpromise = <<>>
    /\ bvalue = <<>>
    /\ bdispatched = <<>>
    /\ bresult = <<>>

Compute ==
    /\ edit = NotCalled
    /\ edit' = compute_minimal_text_edit(old, new, debugBuild)
    /\ UNCHANGED <<old, new, debugBuild, lifeVars, bridgeVars, configVars>>

NextEdit == Compute

SpecEdit == InitEdit /\ [][NextEdit]_vars


\* ------------------------------------------------------------------ options

None == <<>>
Some(x) == <<x>>
IsSome(o) == o # <<>>
Unwrap(o) == o[1]
Option(S) == {None} \cup {Some(x) : x \in S}

\* FORMAT_CONFIG_FILES
FORMAT_CONFIG_FILES == <<".oxfmtrc.json", ".oxfmtrc.jsonc">>

\* The options JSON a host may send: a non-object, or an object whose
\* "fmt.configPath" is absent, a non-string, or one of three strings.
JsonValues ==
    {[object |-> FALSE, configPath |-> None, configPathIsString |-> FALSE]}
    \cup {[object |-> TRUE, configPath |-> None, configPathIsString |-> FALSE]}
    \cup {[object |-> TRUE, configPath |-> Some("1"), configPathIsString |-> FALSE]}
    \cup {[object |-> TRUE, configPath |-> Some(p), configPathIsString |-> TRUE] :
            p \in {"", "configs/formatter.json", ".oxfmtrc.json"}}

\* LSPFormatOptions::default()
DefaultOptions == [config_path |-> None]

\* serde_json::from_value::<LSPFormatOptions>: Err for a non-object; the
\* config path is kept when it is a string (the empty one included).
from_value(json) ==
    IF ~json.object THEN [ok |-> FALSE, value |-> DefaultOptions]
    ELSE [ok |-> TRUE,
          value |-> [config_path |->
                        IF json.configPathIsString THEN json.configPath ELSE None]]

\* match from_value(..) { Ok(opts) => opts, Err(_) => default }
deserialize_or_default(json) ==
    IF from_value(json).ok THEN from_value(json).value ELSE DefaultOptions

\* ------------------------------------------------------- building instances

\* One call on the bridge, as the history keeps it.
Call(op, inst, handle, ok, during) ==
    [op |-> op, inst |-> inst, handle |-> handle, ok |-> ok, during |-> during]

\* init_external_formatter going on to create_workspace whatever init
\* returned.
init_external_formatter_ignoring_init(inst, external_bridge, initOk, createRes) ==
    LET initCalls == IF external_bridge
                     THEN <<Call("init", inst, None, initOk, "build")>>
                     ELSE <<>>
        createCalls == IF external_bridge
                       THEN <<Call("create_workspace", inst, createRes,
                                   IsSome(createRes), "build")>>
                       ELSE <<>>
    IN  [external_bridge  |-> external_bridge /\ IsSome(createRes),
         workspace_handle |-> IF external_bridge THEN createRes ELSE None,
         calls            |-> initCalls \o createCalls]

\* init_external_formatter keeping the bridge when create_workspace failed.
init_external_formatter_keeping_bridge(inst, external_bridge, initOk, createRes) ==
    LET afterInit == external_bridge /\ initOk
        initCalls == IF external_bridge
                     THEN <<Call("init", inst, None, initOk, "build")>>
                     ELSE <<>>
        createCalls == IF afterInit
                       THEN <<Call("create_workspace", inst, createRes,
                                   IsSome(createRes), "build")>>
                       ELSE <<>>
    IN  [external_bridge  |-> afterInit,
         workspace_handle |-> IF afterInit THEN createRes ELSE None,
         calls            |-> initCalls \o createCalls]

\* init_external_formatter initialising the bridge for its first instance
\* only.
init_external_formatter_once_per_bridge(inst, external_bridge, initOk, createRes) ==
    LET afterInit == external_bridge /\ (inst # 1 \/ initOk)
        initCalls == IF external_bridge /\ inst = 1
                     THEN <<Call("init", inst, None, initOk, "build")>>
                     ELSE <<>>
        createCalls == IF afterInit
                       THEN <<Call("create_workspace", inst, createRes,
                                   IsSome(createRes), "build")>>
                       ELSE <<>>
    IN  [external_bridge  |-> afterInit /\ IsSome(createRes),
         workspace_handle |-> IF afterInit THEN createRes ELSE None,
         calls            |-> initCalls \o createCalls]

\* ServerFormatterBuilder::init_external_formatter.  initOk and createRes
\* are the answers of the foreign engine: init's Ok/Err, and
\* create_workspace's Ok(handle) (Some) or Err (None).
init_external_formatter(inst, external_bridge, initOk, createRes) ==
    LET afterInit == external_bridge /\ initOk
        initCalls == IF external_bridge
                     THEN <<Call("init", inst, None, initOk, "build")>>
                     ELSE <<>>
        createCalls == IF afterInit
                       THEN <<Call("create_workspace", inst, createRes,
                                   IsSome(createRes), "build")>>
                       ELSE <<>>
    IN  [external_bridge  |-> afterInit /\ IsSome(createRes),
         workspace_handle |-> IF afterInit THEN createRes ELSE None,
         calls            |-> initCalls \o createCalls]

\* ServerFormatterBuilder::find_config_path, paths relative to the root.
\* files are the paths for which try_exists() is Ok(true).
find_config_path(config_path, files) ==
    IF IsSome(config_path) /\ Unwrap(config_path) # "" /\ Unwrap(config_path) \in files
    THEN Some(Unwrap(config_path))
    ELSE IF \E k \in 1..Len(FORMAT_CONFIG_FILES) : FORMAT_CONFIG_FILES[k] \in files
    THEN Some(FORMAT_CONFIG_FILES[CHOOSE k \in 1..Len(FORMAT_CONFIG_FILES) :
                    /\ FORMAT_CONFIG_FILES[k] \in files
                    /\ \A j \in 1..(k - 1) : FORMAT_CONFIG_FILES[j] \notin files])
    ELSE None

\* What loading the configuration of the root may give: a loaded and valid
\* configuration, ConfigResolver::from_config_paths returning Err, or
\* build_and_validate returning Err.
ConfigAnswers == {"ok", "load_failed", "invalid"}

\* resolve_config keeping the resolver whose validation failed.
resolve_config_keeping_invalid(config_path, configRes) ==
    IF configRes = "load_failed" THEN "default" ELSE "loaded"

\* ServerFormatterBuilder::resolve_config: the resolver it returns, "loaded"
\* (made from the config files found) or "default"
\* (from_config_paths(root_path, None, None)).
resolve_config(config_path, configRes) ==
    LET config_resolver == IF configRes = "load_failed" THEN "default" ELSE "loaded"
    IN  IF configRes = "invalid" THEN "default" ELSE config_resolver

\* ServerFormatterBuilder::build: the instance, the bridge calls made and
\* the options it deserialized.  globOk is whether create_ignore_globs
\* returned Ok.
build(inst, options_json, external_bridge, configRes, globOk, initOk, createRes) ==
    LET options == deserialize_or_default(options_json)
        ext == init_external_formatter(inst, external_bridge, initOk, createRes)
    IN  [tool  |-> [id |-> inst,
                    config_resolver  |-> resolve_config(options.config_path, configRes),
                    gitignore_glob   |-> globOk,
                    external_bridge  |-> ext.external_bridge,
                    workspace_handle |-> ext.workspace_handle],
         calls |-> ext.calls,
         options |-> options]

\* A drop calling delete_workspace again when it returned an error.
drop_retrying(self, deleteOk) ==
    IF self.external_bridge /\ IsSome(self.workspace_handle)
    THEN IF deleteOk
         THEN <<Call("delete_workspace", self.id, self.workspace_handle, TRUE, "drop")>>
         ELSE <<Call("delete_workspace", self.id, self.workspace_handle, FALSE, "drop"),
                Call("delete_workspace", self.id, self.workspace_handle, FALSE, "drop")>>
    ELSE <<>>

\* impl Drop for ServerFormatter: the bridge calls made.  deleteOk is the
\* foreign engine's answer.
drop(self, deleteOk) ==
    IF self.external_bridge /\ IsSome(self.workspace_handle)
    THEN <<Call("delete_workspace", self.id, self.workspace_handle, deleteOk, "drop")>>
    ELSE <<>>

\* get_watcher_patterns taking the empty config path for an override.
get_watcher_patterns_keeping_empty(options_json) ==
    LET options == deserialize_or_default(options_json)
    IN  IF IsSome(options.config_path)
        THEN <<Unwrap(options.config_path)>>
        ELSE FORMAT_CONFIG_FILES

\* ServerFormatter::get_watcher_patterns
get_watcher_patterns(options_json) ==
    LET options == deserialize_or_default(options_json)
    IN  IF IsSome(options.config_path) /\ Unwrap(options.config_path) # ""
        THEN <<Unwrap(options.config_path)>>
        ELSE FORMAT_CONFIG_FILES

\* ------------------------------------------------------------- run_format

\* char::is_whitespace (the Unicode White_Space property)
is_whitespace(c) ==
    c \in ((9..13) \cup {32, 133, 160, 5760} \cup (8192..8202)
           \cup {8232, 8233, 8239, 8287, 12288})

\* str::trim_end
RECURSIVE trim_end(_)
trim_end(t) ==
    IF t # <<>> /\ is_whitespace(t[Len(t)])
    THEN trim_end(SubSeq(t, 1, Len(t) - 1))
    ELSE t

\* The policy removing one final line feed only.
apply_insert_final_newline_removing_one_newline(code, insert_final_newline) ==
    IF ~insert_final_newline /\ code # <<>> /\ code[Len(code)] = 10
    THEN SubSeq(code, 1, Len(code) - 1)
    ELSE code

\* apply_insert_final_newline
apply_insert_final_newline(code, insert_final_newline) ==
    IF ~insert_final_newline THEN trim_end(code) ELSE code

\* char::len_utf16
len_utf16(c) == IF c < 65536 THEN 1 ELSE 2

RECURSIVE Utf16Len(_)
Utf16Len(t) == IF t = <<>> THEN 0 ELSE len_utf16(Head(t)) + Utf16Len(Tail(t))

\* Number of codepoints of t that end at or before byte offset.
CharsBefore(t, offset) ==
    CHOOSE k \in 0..Len(t) :
        /\ PrefixBytes(t, k) <= offset
        /\ k = Len(t) \/ PrefixBytes(t, k + 1) > offset

\* get_line_column: the 0-based line of a byte offset and its column in
\* UTF-16 code units from the start of that line.
get_line_column(offset, source_text) ==
    LET n == CharsBefore(source_text, offset)
        breaks == {i \in 1..n : source_text[i] = 10}
        first == IF breaks = {} THEN 0
                 ELSE CHOOSE i \in breaks : \A j \in breaks : j <= i
    IN  <<Cardinality(breaks), Utf16Len(SubSeq(source_text, first + 1, n))>>

\* build_text_edits: the one-element edit list, or the panic of
\* compute_minimal_text_edit.  debug is whether the build has debug
\* assertions.
build_text_edits(source_text, formatted_text, debug) ==
    LET e == compute_minimal_text_edit(source_text, formatted_text, debug)
    IN  IF e.status # "ok" THEN [status |-> e.status, edits |-> <<>>]
        ELSE [status |-> "ok",
              edits |-> <<[start    |-> get_line_column(e.start, source_text),
                           end      |-> get_line_column(e.end, source_text),
                           new_text |-> e.replacement]>>]

\* is_ignored asking the glob set about paths outside its root too.
is_ignored_without_root_check(self, underRoot, globMatch) ==
    IF self.gitignore_glob THEN globMatch ELSE FALSE

\* ServerFormatter::is_ignored.  underRoot is path.starts_with(glob.path()),
\* globMatch the glob engine's matched_path_or_any_parents(..).is_ignore().
is_ignored(self, underRoot, globMatch) ==
    IF self.gitignore_glob
    THEN IF ~underRoot THEN FALSE ELSE globMatch
    ELSE FALSE

Strategies ==
    {"OxcFormatter", "OxfmtToml", "ExternalFormatter", "ExternalFormatterPackageJson"}

\* The paths of the requests, as the classifier sees them: a package
\* manifest, a data file of the foreign engine, a source file of the native
\* engine, a project config file and a file no engine claims.
Paths ==
    {[file_name |-> "package.json", extension |-> "json"],
     [file_name |-> "data.json",    extension |-> "json"],
     [file_name |-> "index.ts",     extension |-> "ts"],
     [file_name |-> "config.toml",  extension |-> "toml"],
     [file_name |-> "LICENSE",      extension |-> ""]}

\* A classifier looking at the extension before the manifest name.
try_from_by_extension_first(path) ==
    IF path.extension = "json" THEN <<"ExternalFormatter">>
    ELSE IF path.file_name = "package.json" THEN <<"ExternalFormatterPackageJson">>
    ELSE IF path.extension = "toml" THEN <<"OxfmtToml">>
    ELSE IF path.extension = "ts" THEN <<"OxcFormatter">>
    ELSE <<>>

\* FormatFileStrategy::try_from(path).ok(): the manifest name before the
\* extensions of the foreign engine, these before the project config and
\* the native extensions; None when no engine claims the file.
try_from(path) ==
    IF path.file_name = "package.json" THEN <<"ExternalFormatterPackageJson">>
    ELSE IF path.extension = "json" THEN <<"ExternalFormatter">>
    ELSE IF path.extension = "toml" THEN <<"OxfmtToml">>
    ELSE IF path.extension = "ts" THEN <<"OxcFormatter">>
    ELSE <<>>

\* What run_format hands back: result "None", "Some" (with edits) or
\* "Panic"; steps lists what it did on the way, format_file the arguments
\* of the bridge call it made (if any), old_text/code the two texts of the
\* final comparison (if reached).
Outcome(result, edits, steps, format_file, old_text, code) ==
    [result |-> result, edits |-> edits, steps |-> steps,
     format_file |-> format_file, old_text |-> old_text, code |-> code]

\* The tail without its equality check.
finish_without_equality_check(old_text, raw, insert_final_newline, steps, format_file) ==
    LET code == apply_insert_final_newline(raw, insert_final_newline)
        built_edits == build_text_edits(old_text, code, debugBuild)
    IN  IF built_edits.status = "ok"
        THEN Outcome("Some", built_edits.edits, steps \o <<"build_text_edits">>,
                     format_file, Some(old_text), Some(code))
        ELSE Outcome("Panic", <<>>, steps \o <<"build_text_edits">>,
                     format_file, Some(old_text), Some(code))

\* The tail shared by the three formatting branches: final newline policy,
\* equality check, build_text_edits(old_text, code).
finish(old_text, raw, insert_final_newline, steps, format_file) ==
    LET code == apply_insert_final_newline(raw, insert_final_newline)
        built_edits == build_text_edits(old_text, code, debugBuild)
    IN  IF code = old_text
        THEN Outcome("Some", <<>>, steps, format_file, Some(old_text), Some(code))
        ELSE IF built_edits.status = "ok"
        THEN Outcome("Some", built_edits.edits, steps \o <<"build_text_edits">>,
                     format_file, Some(old_text), Some(code))
        ELSE Outcome("Panic", <<>>, steps \o <<"build_text_edits">>,
                     format_file, Some(old_text), Some(code))

Skip(steps) == Outcome("None", <<>>, steps, None, None, None)

\* FormatFileStrategy::OxcFormatter branch
run_format_oxc(self, req, source_text, steps) ==
    IF req.resolved # "OxcFormatter" THEN Skip(steps \o <<"resolve">>)
    ELSE IF req.parseErrors THEN Skip(steps \o <<"resolve", "parse">>)
    ELSE finish(source_text, req.nativeOut, req.insert_final_newline,
                steps \o <<"resolve", "parse", "format">>, None)

\* The external branch resolving the options before it looks for the bridge.
run_format_external_resolving_first(self, req, source_text, steps) ==
    IF req.resolved # "ExternalFormatter" THEN Skip(steps \o <<"resolve">>)
    ELSE IF ~self.external_bridge THEN Skip(steps \o <<"resolve">>)
    ELSE IF ~IsSome(self.workspace_handle) THEN Skip(steps \o <<"resolve">>)
    ELSE LET call == [workspace |-> Unwrap(self.workspace_handle), code |-> source_text]
         IN  IF ~IsSome(req.engineRes)
             THEN Outcome("None", <<>>, steps \o <<"resolve", "format_file">>,
                          Some(call), None, None)
             ELSE finish(source_text, Unwrap(req.engineRes), req.insert_final_newline,
                         steps \o <<"resolve", "format_file">>, Some(call))

\* The external branch addressing the first workspace of the bridge instead
\* of the one its instance holds.
run_format_external_on_first_workspace(self, req, source_text, steps) ==
    IF ~self.external_bridge THEN Skip(steps)
    ELSE IF ~IsSome(self.workspace_handle) THEN Skip(steps)
    ELSE IF req.resolved # "ExternalFormatter" THEN Skip(steps \o <<"resolve">>)
    ELSE LET call == [workspace |-> 1, code |-> source_text]
         IN  IF ~IsSome(req.engineRes)
             THEN Outcome("None", <<>>, steps \o <<"resolve", "format_file">>,
                          Some(call), None, None)
             ELSE finish(source_text, Unwrap(req.engineRes), req.insert_final_newline,
                         steps \o <<"resolve", "format_file">>, Some(call))

\* FormatFileStrategy::ExternalFormatter branch
run_format_external(self, req, source_text, steps) ==
    IF ~self.external_bridge THEN Skip(steps)
    ELSE IF ~IsSome(self.workspace_handle) THEN Skip(steps)
    ELSE IF req.resolved # "ExternalFormatter" THEN Skip(steps \o <<"resolve">>)
    ELSE LET call == [workspace |-> Unwrap(self.workspace_handle), code |-> source_text]
         IN  IF ~IsSome(req.engineRes)
             THEN Outcome("None", <<>>, steps \o <<"resolve", "format_file">>,
                          Some(call), None, None)
             ELSE finish(source_text, Unwrap(req.engineRes), req.insert_final_newline,
                         steps \o <<"resolve", "format_file">>, Some(call))

\* The manifest branch handing the unsorted source to the engine.
run_format_package_json_sending_source(self, req, source_text, steps) ==
    IF ~self.external_bridge THEN Skip(steps)
    ELSE IF ~IsSome(self.workspace_handle) THEN Skip(steps)
    ELSE IF req.resolved # "ExternalFormatterPackageJson"
    THEN Skip(steps \o <<"resolve">>)
    ELSE IF req.sort_package_json /\ ~IsSome(req.sortRes)
    THEN Skip(steps \o <<"resolve", "sort">>)
    ELSE LET shadowed == IF req.sort_package_json THEN Unwrap(req.sortRes)
                         ELSE source_text
             steps2 == steps \o (IF req.sort_package_json
                                 THEN <<"resolve", "sort", "format_file">>
                                 ELSE <<"resolve", "format_file">>)
             call == [workspace |-> Unwrap(self.workspace_handle), code |-> source_text]
         IN  IF ~IsSome(req.engineRes)
             THEN Outcome("None", <<>>, steps2, Some(call), None, None)
             ELSE finish(shadowed, Unwrap(req.engineRes), req.insert_final_newline,
                         steps2, Some(call))

\* FormatFileStrategy::ExternalFormatterPackageJson branch.  From the sort
\* on, source_text is the sorted text (the binding is shadowed).
run_format_package_json(self, req, source_text, steps) ==
    IF ~self.external_bridge THEN Skip(steps)
    ELSE IF ~IsSome(self.workspace_handle) THEN Skip(steps)
    ELSE IF req.resolved # "ExternalFormatterPackageJson"
    THEN Skip(steps \o <<"resolve">>)
    ELSE IF req.sort_package_json /\ ~IsSome(req.sortRes)
    THEN Skip(steps \o <<"resolve", "sort">>)
    ELSE LET shadowed == IF req.sort_package_json THEN Unwrap(req.sortRes)
                         ELSE source_text
             steps2 == steps \o (IF req.sort_package_json
                                 THEN <<"resolve", "sort", "format_file">>
                                 ELSE <<"resolve", "format_file">>)
             call == [workspace |-> Unwrap(self.workspace_handle), code |-> shadowed]
         IN  IF ~IsSome(req.engineRes)
             THEN Outcome("None", <<>>, steps2, Some(call), None, None)
             ELSE finish(shadowed, Unwrap(req.engineRes), req.insert_final_newline,
                         steps2, Some(call))

\* The match sending the project config files to the foreign engine.
match_strategy_formatting_toml(self, req, source_text, steps) ==
    LET strategy == try_from(req.path)
    IN  IF ~IsSome(strategy) THEN Skip(steps)
        ELSE CASE Unwrap(strategy) = "OxcFormatter" ->
                    run_format_oxc(self, req, source_text, steps)
               [] Unwrap(strategy) = "OxfmtToml" ->
                    run_format_external(self, req, source_text, steps)
               [] Unwrap(strategy) = "ExternalFormatter" ->
                    run_format_external(self, req, source_text, steps)
               [] Unwrap(strategy) = "ExternalFormatterPackageJson" ->
                    run_format_package_json(self, req, source_text, steps)

\* The match on the strategy: what run_format does once it has the source
\* text and the classification.
match_strategy(self, req, source_text, steps) ==
    LET strategy == try_from(req.path)
    IN  IF ~IsSome(strategy) THEN Skip(steps)
        ELSE CASE Unwrap(strategy) = "OxcFormatter" ->
                    run_format_oxc(self, req, source_text, steps)
               [] Unwrap(strategy) = "OxfmtToml" -> Skip(steps)
               [] Unwrap(strategy) = "ExternalFormatter" ->
                    run_format_external(self, req, source_text, steps)
               [] Unwrap(strategy) = "ExternalFormatterPackageJson" ->
                    run_format_package_json(self, req, source_text, steps)

\* run_format consulting the ignore set only after it has read the source.
run_format_reading_first(self, req) ==
    IF ~req.uriIsFile THEN Skip(<<>>)
    ELSE IF ~IsSome(req.content) /\ ~IsSome(req.disk) THEN Skip(<<"read">>)
    ELSE LET source_text == IF IsSome(req.content) THEN Unwrap(req.content)
                            ELSE Unwrap(req.disk)
             steps == IF IsSome(req.content) THEN <<"is_ignored", "classify">>
                      ELSE <<"read", "is_ignored", "classify">>
         IN  IF is_ignored(self, req.underRoot, req.globMatch)
             THEN Skip(SubSeq(steps, 1, Len(steps) - 1))
             ELSE match_strategy(self, req, source_text, steps)

\* ServerFormatter::run_format.  req carries the request (uri, content) and
\* the answers of the collaborators it consults: the file system (disk),
\* the classifier (path, whose classification is strategy), the config resolver
\* (resolved, insert_final_newline, sort_package_json), the parser and the
\* native formatter (parseErrors, nativeOut), sort_package_json (sortRes)
\* and the bridge's format_file (engineRes).
run_format(self, req) ==
    IF ~req.uriIsFile THEN Skip(<<>>)
    ELSE IF is_ignored(self, req.underRoot, req.globMatch)
    THEN Skip(<<"is_ignored">>)
    ELSE IF ~IsSome(req.content) /\ ~IsSome(req.disk)
    THEN Skip(<<"is_ignored", "read">>)
    ELSE LET source_text == IF IsSome(req.content) THEN Unwrap(req.content)
                            ELSE Unwrap(req.disk)
             steps == IF IsSome(req.content) THEN <<"is_ignored", "classify">>
                      ELSE <<"is_ignored", "read", "classify">>
         IN  match_strategy(self, req, source_text, steps)

\* --------------------------------------------------- reconfiguration handlers

\* ToolRestartChanges
ToolRestartChanges(new_tool, watch_patterns) ==
    [tool |-> new_tool, watch_patterns |-> watch_patterns]

\* The comparison made on the JSON values instead of the options.
options_changed_as_json(old_options_json, new_options_json) ==
    old_options_json # new_options_json

\* The comparison that decides whether handle_configuration_change restarts.
options_changed(old_options_json, new_options_json) ==
    deserialize_or_default(old_options_json) # deserialize_or_default(new_options_json)

\* handle_configuration_change rebuilding without reporting watch patterns.
handle_configuration_change_without_patterns(inst, external_bridge, old_options_json, new_options_json, configRes, globOk, initOk, createRes) ==
    IF ~options_changed(old_options_json, new_options_json)
    THEN [changes |-> ToolRestartChanges(None, None), calls |-> <<>>, options |-> None]
    ELSE LET b == build(inst, new_options_json, external_bridge, configRes, globOk, initOk, createRes)
         IN  [changes |-> ToolRestartChanges(Some(b.tool), None), calls |-> b.calls,
              options |-> Some(b.options)]

\* ServerFormatter::handle_configuration_change, with builder.build_boxed
\* inlined: the changes it returns and the bridge calls it makes.
handle_configuration_change(inst, external_bridge, old_options_json, new_options_json, configRes, globOk, initOk, createRes) ==
    IF ~options_changed(old_options_json, new_options_json)
    THEN [changes |-> ToolRestartChanges(None, None), calls |-> <<>>, options |-> None]
    ELSE LET b == build(inst, new_options_json, external_bridge, configRes, globOk, initOk, createRes)
         IN  [changes |-> ToolRestartChanges(Some(b.tool),
                                             Some(get_watcher_patterns(new_options_json))),
              calls |-> b.calls, options |-> Some(b.options)]

\* handle_watched_file_change rebuilding only when a config file changed.
handle_watched_file_change_for_config_files(inst, external_bridge, changed_uri, options_json, configRes, globOk, initOk, createRes) ==
    LET b == build(inst, options_json, external_bridge, configRes, globOk, initOk, createRes)
    IN  IF \E i \in 1..Len(FORMAT_CONFIG_FILES) : FORMAT_CONFIG_FILES[i] = changed_uri
        THEN [changes |-> ToolRestartChanges(Some(b.tool), None), calls |-> b.calls,
              options |-> Some(b.options)]
        ELSE [changes |-> ToolRestartChanges(None, None), calls |-> <<>>, options |-> None]

\* ServerFormatter::handle_watched_file_change; _changed_uri is not read.
handle_watched_file_change(inst, external_bridge, changed_uri, options_json, configRes, globOk, initOk, createRes) ==
    LET b == build(inst, options_json, external_bridge, configRes, globOk, initOk, createRes)
    IN  [changes |-> ToolRestartChanges(Some(b.tool), None), calls |-> b.calls,
         options |-> Some(b.options)]

\* -------------------------------------------------------------- requests

\* Codepoints of the documents sent through run_format: U+00A0 (bytes
\* C2 A0, whitespace) and U+00E0 (bytes C3 A0, a letter).
DocAlphabet == {160, 224}

\* Longest document (in codepoints) sent through run_format in SpecFormat.
MaxDocLen == 1

DocTexts == UNION {[1..k -> DocAlphabet] : k \in 0..MaxDocLen}

\* Documents sent through run_format in Spec.
ProbeTexts == {<<>>}

\* Fields a branch does not read are held at these values.
QuietReq ==
    [uriIsFile |-> TRUE, underRoot |-> TRUE, globMatch |-> FALSE,
     path |-> [file_name |-> "LICENSE", extension |-> ""],
     content |-> None, disk |-> None, strategy |-> None,
     resolved |-> "OxfmtToml", insert_final_newline |-> TRUE,
     sort_package_json |-> FALSE, parseErrors |-> FALSE, nativeOut |-> <<>>,
     sortRes |-> None, engineRes |-> None]

\* The collaborators' answers that matter below the classification.
EngineAnswers(T) ==
    {[QuietReq EXCEPT !.strategy = None]}
    \cup {[QuietReq EXCEPT !.strategy = Some(s)] : s \in Strategies}
    \cup {[QuietReq EXCEPT !.strategy = Some("OxcFormatter"), !.resolved = "OxcFormatter",
                           !.parseErrors = TRUE]}
    \cup {[QuietReq EXCEPT !.strategy = Some("OxcFormatter"), !.resolved = "OxcFormatter",
                           !.nativeOut = t, !.insert_final_newline = nl] :
            t \in T, nl \in BOOLEAN}
    \cup {[QuietReq EXCEPT !.strategy = Some("ExternalFormatter"),
                           !.resolved = "ExternalFormatter",
                           !.engineRes = r, !.insert_final_newline = nl] :
            r \in Option(T), nl \in BOOLEAN}
    \cup {[QuietReq EXCEPT !.strategy = Some("ExternalFormatterPackageJson"),
                           !.resolved = "ExternalFormatterPackageJson",
                           !.engineRes = r, !.insert_final_newline = nl] :
            r \in Option(T), nl \in BOOLEAN}
    \cup {[QuietReq EXCEPT !.strategy = Some("ExternalFormatterPackageJson"),
                           !.resolved = "ExternalFormatterPackageJson",
                           !.sort_package_json = TRUE, !.sortRes = sr,
                           !.engineRes = r, !.insert_final_newline = nl] :
            sr \in Option(T), r \in Option(T), nl \in BOOLEAN}

\* The answers with the paths they are answers for: strategy is the
\* classification of path.
PathAnswers(T) ==
    UNION {{[a EXCEPT !.path = p] : p \in {q \in Paths : try_from(q) = a.strategy}} :
            a \in EngineAnswers(T)}

\* Every request over the documents T.
Requests(T) ==
    {[QuietReq EXCEPT !.uriIsFile = FALSE]}
    \cup {[a EXCEPT !.underRoot = u, !.globMatch = g, !.content = c, !.disk = d] :
            a \in PathAnswers(T), u \in BOOLEAN, g \in BOOLEAN,
            c \in Option(T), d \in Option(T)}

\* The requests sent through run_format in Spec, where only the instance's
\* life cycle is of interest: the uri that is no file, and the documents
\* that go to the foreign engine, supplied by the client for a file under
\* the root that no pattern ignores.
ProbeRequests ==
    {[QuietReq EXCEPT !.uriIsFile = FALSE]}
    \cup {r \in Requests(ProbeTexts) :
            /\ r.strategy \in {Some("ExternalFormatter"),
                               Some("ExternalFormatterPackageJson")}
            /\ r.strategy = Some(r.resolved)
            /\ r.underRoot
            /\ ~r.globMatch
            /\ IsSome(r.content)
            /\ r.disk = None
            /\ r.insert_final_newline
            /\ ~r.sort_package_json}

\* ------------------------------------------------------------------ actions

OutsideSpec ==
    /\ NoSearch
    /\ old = <<>>
    /\ new = <<>>
    /\ debugBuild \in BOOLEAN
    /\ edit = NotCalled
    /\ bpc = <<>>
    /\ bop = <<>>
    /\ bslot = <<>>
    /\ bpromise = <<>>
    /\ bvalue = <<>>
    /\ bdispatched = <<>>
    /\ bresult = <<>>

Init ==
    /\ OutsideSpec
    /\ builderBridge \in BOOLEAN
    /\ phase = "new"
    /\ tool = None
    /\ pending = None
    /\ calls = <<>>
    /\ built = 0
    /\ dropped = {}
    /\ issued = 0
    /\ resp = None
    /\ building = None
    /\ inflight = {}
    /\ dropping = None

\* Number of instances built over one run.
MaxBuilds == 3

\* The workspace ids handed out by the calls cs.
Created(cs) == {i \in 1..Len(cs) : cs[i].op = "create_workspace" /\ cs[i].ok}

\* The foreign engine's create_workspace: Err, or Ok with an unused id.
CreateAnswers == {None, Some(issued + 1)}

\* A build under way: the handler that runs it with its arguments, the
\* answers of the config loader and of the ignore-glob builder, the number
\* of bridge calls that have returned, and init's answer once it is there.
Waiting(op, old_json, new_json, changed_uri, configRes, globOk) ==
    [op |-> op, old |-> old_json, new |-> new_json, changed_uri |-> changed_uri,
     configRes |-> configRes, globOk |-> globOk, initOk |-> None, sent |-> 0]

\* init's answer to the build w; while init has not returned, the calls
\* made so far do not depend on it.
InitAnswer(w) == IF IsSome(w.initOk) THEN Unwrap(w.initOk) ELSE TRUE

\* The bridge calls of the build w when init and create_workspace answer
\* initOk and createRes.
BuildCalls(w, initOk, createRes) ==
    CASE w.op = "start" ->
            build(built + 1, w.new, builderBridge, w.configRes, w.globOk,
                  initOk, createRes).calls
      [] w.op = "configuration_change" ->
            handle_configuration_change(built + 1, builderBridge, w.old, w.new,
                                        w.configRes, w.globOk, initOk, createRes).calls
      [] w.op = "watched_file_change" ->
            handle_watched_file_change(built + 1, builderBridge, w.changed_uri, w.new,
                                       w.configRes, w.globOk, initOk, createRes).calls

\* The bridge call the build w waits in.
Awaited(w) == BuildCalls(w, InitAnswer(w), None)[w.sent + 1]

\* What the host keeps of a returned handle_configuration_change.
ReturnedConfigurationChange(h, old_json, new_json, configRes, globOk) ==
    [op |-> "configuration_change", old |-> old_json,
     new |-> new_json, changes |-> h.changes,
     made |-> h.calls, built_before |-> built,
     options |-> h.options,
     configRes |-> IF IsSome(h.changes.tool) THEN configRes ELSE "ok",
     globOk |-> IsSome(h.changes.tool) /\ globOk]

\* What the host keeps of a returned handle_watched_file_change.
ReturnedWatchedFileChange(h, json, changed_uri, configRes, globOk) ==
    [op |-> "watched_file_change", old |-> json,
     new |-> json, changes |-> h.changes,
     made |-> h.calls, built_before |-> built,
     options |-> h.options,
     configRes |-> configRes, globOk |-> globOk,
     changed_uri |-> changed_uri]

\* The build w, and the handler that runs it, return: the host holds the
\* first instance, or what the handler returned.
FinishBuild(w, initOk, createRes) ==
    LET b == build(built + 1, w.new, builderBridge, w.configRes, w.globOk, initOk, createRes)
        hc == handle_configuration_change(built + 1, builderBridge, w.old, w.new,
                                          w.configRes, w.globOk, initOk, createRes)
        hw == handle_watched_file_change(built + 1, builderBridge, w.changed_uri, w.new,
                                         w.configRes, w.globOk, initOk, createRes)
    IN  /\ CASE w.op = "start" ->
                    /\ tool' = Some(b.tool)
                    /\ phase' = "serving"
                    /\ built' = built + 1
                    /\ UNCHANGED pending
             [] w.op = "configuration_change" ->
                    /\ pending' = Some(ReturnedConfigurationChange(hc, w.old, w.new,
                                                                   w.configRes, w.globOk))
                    /\ built' = IF IsSome(hc.changes.tool) THEN built + 1 ELSE built
                    /\ UNCHANGED <<tool, phase>>
             [] w.op = "watched_file_change" ->
                    /\ pending' = Some(ReturnedWatchedFileChange(hw, w.new, w.changed_uri,
                                                                 w.configRes, w.globOk))
                    /\ built' = IF IsSome(hw.changes.tool) THEN built + 1 ELSE built
                    /\ UNCHANGED <<tool, phase>>
        /\ building' = None

\* The build w is called: it returns at once when it makes no bridge call,
\* and waits in its first bridge call otherwise.
BeginBuild(w) ==
    /\ IF BuildCalls(w, TRUE, None) = <<>>
       THEN FinishBuild(w, TRUE, None)
       ELSE /\ building' = Some(w)
            /\ UNCHANGED <<tool, phase, pending, built>>
    /\ UNCHANGED <<builderBridge, calls, dropped, issued, resp, inflight, dropping,
                   editVars, bridgeVars, configVars>>

\* The bridge call the build w waited in has returned (w counts it, and
\* initOk and createRes are the answers so far): the build goes on to its
\* next bridge call, or returns.
BridgeCallReturns(w, initOk, createRes) ==
    LET cs == BuildCalls(w, initOk, createRes)
    IN  /\ calls' = calls \o <<cs[w.sent]>>
        /\ issued' = issued + Cardinality(Created(<<cs[w.sent]>>))
        /\ IF Len(cs) > w.sent
           THEN /\ building' = Some(w)
                /\ UNCHANGED <<tool, phase, pending, built>>
           ELSE FinishBuild(w, initOk, createRes)
        /\ UNCHANGED <<builderBridge, dropped, resp, inflight, dropping,
                       editVars, bridgeVars, configVars>>

\* The host builds its first instance (ToolBuilder::build_boxed) with
\* options out of J, the config loader answering out of C and the
\* ignore-glob builder out of G.
StartOver(J, C, G) ==
    /\ phase = "new"
    /\ building = None
    /\ \E json \in J, configRes \in C, globOk \in G :
        BeginBuild(Waiting("start", json, json, "", configRes, globOk))

Start == StartOver(JsonValues, ConfigAnswers, BOOLEAN)

\* The builds of Spec, where requests run beside the handlers: the options
\* are empty or name a config file, the config loads or fails to load, and
\* the ignore globs are built.
ProbeJsonValues ==
    {[object |-> TRUE, configPath |-> None, configPathIsString |-> FALSE],
     [object |-> TRUE, configPath |-> Some("configs/formatter.json"),
      configPathIsString |-> TRUE]}

ProbeConfigAnswers == {"ok", "load_failed"}

ProbeGlobAnswers == {TRUE}

StartProbe == StartOver(ProbeJsonValues, ProbeConfigAnswers, ProbeGlobAnswers)

\* The builds of SpecFormat: the ignore globs are built or not.
StartDoc == StartOver(ProbeJsonValues, {"ok"}, BOOLEAN)

\* The host is serving and runs no notification.
Idle == phase = "serving" /\ pending = None /\ building = None /\ dropping = None

\* The host forwards a configuration change to the instance it holds.
HandleConfigurationChangeOver(J, C, G) ==
    /\ Idle
    /\ \E old_json \in J, new_json \in J, configRes \in C, globOk \in G :
        LET h == handle_configuration_change(built + 1, builderBridge, old_json, new_json,
                                             configRes, globOk, TRUE, None)
        IN  /\ IsSome(h.changes.tool) => built < MaxBuilds
            /\ BeginBuild(Waiting("configuration_change", old_json, new_json, "",
                                  configRes, globOk))

HandleConfigurationChange == HandleConfigurationChangeOver(JsonValues, ConfigAnswers, BOOLEAN)

HandleConfigurationChangeProbe ==
    HandleConfigurationChangeOver(ProbeJsonValues, ProbeConfigAnswers, ProbeGlobAnswers)

\* The files whose change the host reports: a config file and a source file.
ChangedUris == {".oxfmtrc.json", "src/index.ts"}

\* The host forwards a watched-file change to the instance it holds.
HandleWatchedFileChangeOver(U, J, C, G) ==
    /\ Idle
    /\ built < MaxBuilds
    /\ \E changed_uri \in U, json \in J, configRes \in C, globOk \in G :
        BeginBuild(Waiting("watched_file_change", json, json, changed_uri,
                           configRes, globOk))

HandleWatchedFileChange ==
    HandleWatchedFileChangeOver(ChangedUris, JsonValues, ConfigAnswers, BOOLEAN)

HandleWatchedFileChangeProbe ==
    HandleWatchedFileChangeOver({".oxfmtrc.json"}, ProbeJsonValues, ProbeConfigAnswers,
                                ProbeGlobAnswers)

\* bridge.init returns to the build that waits in it.
InitReturns ==
    /\ IsSome(building)
    /\ Awaited(Unwrap(building)).op = "init"
    /\ \E initOk \in BOOLEAN :
        LET w == Unwrap(building)
        IN  BridgeCallReturns([w EXCEPT !.initOk = Some(initOk), !.sent = w.sent + 1],
                              initOk, None)

\* bridge.create_workspace returns to the build that waits in it.
CreateWorkspaceReturns ==
    /\ IsSome(building)
    /\ Awaited(Unwrap(building)).op = "create_workspace"
    /\ \E createRes \in CreateAnswers :
        LET w == Unwrap(building)
        IN  BridgeCallReturns([w EXCEPT !.sent = w.sent + 1], InitAnswer(w), createRes)

\* The host asks the instance it holds for the patterns to watch.
GetWatcherPatternsOver(J) ==
    /\ Idle
    /\ \E json \in J :
        pending' = Some([op |-> "get_watcher_patterns", old |-> json, new |-> json,
                         changes |-> ToolRestartChanges(None,
                                                        Some(get_watcher_patterns(json))),
                         made |-> <<>>, built_before |-> built])
    /\ UNCHANGED <<builderBridge, phase, tool, calls, built, dropped, issued, resp,
                   building, inflight, dropping, editVars, bridgeVars, configVars>>

GetWatcherPatterns == GetWatcherPatternsOver(JsonValues)

GetWatcherPatternsProbe == GetWatcherPatternsOver(ProbeJsonValues)

\* The host applies the changes a handler returned: a replacement instance
\* takes the place of the old one, which is dropped once no request runs
\* on it; the drop waits in delete_workspace when it calls it.
Install ==
    /\ phase = "serving"
    /\ IsSome(pending)
    /\ dropping = None
    /\ inflight = {}
    /\ resp = None
    /\ LET changes == Unwrap(pending).changes
       IN  IF IsSome(changes.tool) /\ drop(Unwrap(tool), TRUE) # <<>>
           THEN /\ dropping' = Some("install")
                /\ UNCHANGED <<dropped, tool, pending>>
           ELSE /\ IF IsSome(changes.tool)
                   THEN /\ dropped' = dropped \cup {Unwrap(tool).id}
                        /\ tool' = changes.tool
                   ELSE UNCHANGED <<dropped, tool>>
                /\ pending' = None
                /\ UNCHANGED dropping
    /\ UNCHANGED <<builderBridge, phase, calls, built, issued, resp, building, inflight,
                   editVars, bridgeVars, configVars>>

\* The host shuts down and drops the instance it holds, once no request
\* runs on it; the drop waits in delete_workspace when it calls it.
Shutdown ==
    /\ Idle
    /\ inflight = {}
    /\ resp = None
    /\ IF drop(Unwrap(tool), TRUE) # <<>>
       THEN /\ dropping' = Some("shutdown")
            /\ UNCHANGED <<dropped, tool, phase>>
       ELSE /\ dropped' = dropped \cup {Unwrap(tool).id}
            /\ tool' = None
            /\ phase' = "stopped"
            /\ UNCHANGED dropping
    /\ UNCHANGED <<builderBridge, pending, calls, built, issued, resp, building, inflight,
                   editVars, bridgeVars, configVars>>

\* bridge.delete_workspace returns to the drop that waits in it: the
\* instance is gone, and the host holds the replacement or has stopped.
DeleteWorkspaceReturns ==
    /\ IsSome(dropping)
    /\ \E deleteOk \in BOOLEAN :
        calls' = calls \o drop(Unwrap(tool), deleteOk)
    /\ dropped' = dropped \cup {Unwrap(tool).id}
    /\ IF Unwrap(dropping) = "install"
       THEN /\ tool' = Unwrap(pending).changes.tool
            /\ pending' = None
            /\ UNCHANGED phase
       ELSE /\ tool' = None
            /\ phase' = "stopped"
            /\ UNCHANGED pending
    /\ dropping' = None
    /\ UNCHANGED <<builderBridge, built, issued, resp, building, inflight,
                   editVars, bridgeVars, configVars>>

\* A request in format_file: the instance that serves it, the request
\* (the engine's answer still open) and the call made.
InFlight(self, req, call) ==
    [inst |-> self.id, req |-> [req EXCEPT !.engineRes = None], call |-> call]

\* A formatting request out of R is called on the instance held: it
\* returns at once when it does not call format_file, and waits in
\* format_file otherwise.  It may come while a build waits in a bridge call
\* and while other requests wait in format_file.
RunFormatOver(R) ==
    /\ phase = "serving"
    /\ dropping = None
    /\ \E req \in R :
        LET self == Unwrap(tool)
            out == run_format(self, req)
        IN  IF IsSome(out.format_file)
            THEN /\ InFlight(self, req, Unwrap(out.format_file)) \notin inflight
                 /\ inflight' = inflight \cup {InFlight(self, req, Unwrap(out.format_file))}
                 /\ UNCHANGED resp
            ELSE /\ resp = None
                 /\ resp' = Some([inst |-> self.id, tool |-> self, req |-> req, out |-> out])
                 /\ UNCHANGED inflight
    /\ UNCHANGED <<builderBridge, phase, tool, pending, calls, built, dropped, issued,
                   building, dropping, editVars, bridgeVars, configVars>>

RunFormat == RunFormatOver(ProbeRequests)

\* The client of SpecFormat sends any request when none is under way, and
\* one out of ProbeRequests beside a request that waits in format_file.
RunFormatDoc ==
    /\ resp = None
    /\ IF inflight = {}
       THEN RunFormatOver(Requests(DocTexts))
       ELSE Cardinality(inflight) < 2 /\ RunFormatOver(ProbeRequests)

\* bridge.format_file returns to a request that waits in it, with an
\* answer over the documents T, and the request runs to its end.
FormatFileReturnsOver(T) ==
    /\ resp = None
    /\ \E f \in inflight, engineRes \in Option(T) :
        LET self == Unwrap(tool)
            req == [f.req EXCEPT !.engineRes = engineRes]
        IN  /\ resp' = Some([inst |-> f.inst, tool |-> self, req |-> req,
                             out |-> run_format(self, req)])
            /\ inflight' = inflight \ {f}
    /\ UNCHANGED <<builderBridge, phase, tool, pending, calls, built, dropped, issued,
                   building, dropping, editVars, bridgeVars, configVars>>

FormatFileReturns == FormatFileReturnsOver(ProbeTexts)

FormatFileReturnsDoc == FormatFileReturnsOver(DocTexts)

\* The host sends the response of run_format to the client.
Deliver ==
    /\ IsSome(resp)
    /\ resp' = None
    /\ UNCHANGED <<builderBridge, phase, tool, pending, calls, built, dropped, issued,
                   building, inflight, dropping, editVars, bridgeVars, configVars>>

Next ==
    \/ StartProbe
    \/ HandleConfigurationChangeProbe
    \/ HandleWatchedFileChangeProbe
    \/ InitReturns
    \/ CreateWorkspaceReturns
    \/ GetWatcherPatternsProbe
    \/ Install
    \/ Shutdown
    \/ DeleteWorkspaceReturns
    \/ RunFormat
    \/ FormatFileReturns
    \/ Deliver

\* The life of the instances of one project root, with requests running
\* beside the handlers.
Spec == Init /\ [][Next]_vars

NextHandlers ==
    \/ Start
    \/ HandleConfigurationChange
    \/ HandleWatchedFileChange
    \/ InitReturns
    \/ CreateWorkspaceReturns
    \/ GetWatcherPatterns
    \/ Install
    \/ DeleteWorkspaceReturns

\* The handlers of the instances of one project root, over every kind of
\* options and answer.
SpecHandlers == Init /\ [][NextHandlers]_vars

NextFormat ==
    \/ StartDoc
    \/ InitReturns
    \/ CreateWorkspaceReturns
    \/ RunFormatDoc
    \/ FormatFileReturnsDoc
    \/ Deliver

\* One instance serving formatting requests.
SpecFormat == Init /\ [][NextFormat]_vars

\* -------------------------------------------------------------- SpecConfig
\* The config file a build loads and the patterns reported for the same
\* options, for every options value and every set of files in the root.

\* The files a project root may hold.
RootFiles == {".oxfmtrc.json", ".oxfmtrc.jsonc", "configs/formatter.json", "package.json"}

InitConfig ==
    /\ configOptions \in JsonValues
    /\ rootFiles \in SUBSET RootFiles
    /\ found = None
    /\ old = <<>>
    /\ new = <<>>
    /\ debugBuild = TRUE
    /\ edit = NotCalled
    /\ builderBridge = FALSE
    /\ phase = "new"
    /\ tool = None
    /\ pending = None
    /\ calls = <<>>
    /\ built = 0
    /\ dropped = {}
    /\ issued = 0
    /\ resp = None
    /\ building = None
    /\ inflight = {}
    /\ dropping = None
    /\ bpc = <<>>
    /\ bop = <<>>
    /\ bslot = <<>>
    /\ bpromise = <<>>
    /\ bvalue = <<>>
    /\ bdispatched = <<>>
    /\ bresult = <<>>

\* build looks for the config file of the options it was given
\* (resolve_config's first step), and the instance reports the patterns to
\* watch for the same options.
FindConfigPath ==
    /\ found = None
    /\ found' = Some([config   |-> find_config_path(
                                        deserialize_or_default(configOptions).config_path,
                                        rootFiles),
                      patterns |-> get_watcher_patterns(configOptions)])
    /\ UNCHANGED <<configOptions, rootFiles, editVars, lifeVars, bridgeVars>>

NextConfig == FindConfigPath

SpecConfig == InitConfig /\ [][NextConfig]_vars

\* ------------------------------------------------ claims: the minimal edit

Called == edit # NotCalled

\* old[..start] ++ replacement ++ old[end..], byte-wise
ApplyBytes(text, e) ==
    Slice(as_bytes(text), 0, e.start) \o e.replacement
        \o Slice(as_bytes(text), e.end, ByteLen(text))

\* C1: for all old # new the call returns (s, e, r) with s <= e <= len(old)
\* and old[..s] ++ r ++ old[e..] = new, byte for byte.
C1_RoundTrip ==
    (Called /\ old # new) =>
        /\ edit.status = "ok"
        /\ edit.start <= edit.end
        /\ edit.end <= ByteLen(old)
        /\ ApplyBytes(old, edit) = as_bytes(new)

\* C2: for all old # new the offsets never split a codepoint: start and end
\* are char boundaries of old, and the bounds of the replacement are char
\* boundaries of new.
C2_NeverSplitsCodepoint ==
    (Called /\ old # new) =>
        /\ is_char_boundary(old, edit.start)
        /\ is_char_boundary(old, edit.end)
        /\ is_char_boundary(new, edit.start)
        /\ is_char_boundary(new, edit.replacement_end)

\* Number of leading codepoints old and new share.
RECURSIVE CommonPrefixChars(_, _)
CommonPrefixChars(a, b) ==
    IF a # <<>> /\ b # <<>> /\ Head(a) = Head(b)
    THEN 1 + CommonPrefixChars(Tail(a), Tail(b))
    ELSE 0

\* Byte length of the longest common codepoint prefix.
RefPrefix(a, b) == PrefixBytes(a, CommonPrefixChars(a, b))

\* Byte length of the last k codepoints of t.
SuffixBytes(t, k) == ByteLen(t) - PrefixBytes(t, Len(t) - k)

\* Byte length of the longest common codepoint suffix that fits in what
\* the common prefix leaves of the shorter text.
RefSuffix(a, b) ==
    LET room == Min(ByteLen(a), ByteLen(b)) - RefPrefix(a, b)
        fits == {k \in 0..Min(Len(a), Len(b)) :
                    /\ SubSeq(a, Len(a) - k + 1, Len(a)) = SubSeq(b, Len(b) - k + 1, Len(b))
                    /\ SuffixBytes(a, k) <= room}
        best == CHOOSE k \in fits : \A j \in fits : j <= k
    IN  SuffixBytes(a, best)

\* C3: for all old # new the result is the reference edit: start is the
\* longest common codepoint prefix, len(old) - end the longest common suffix
\* limited to min(len(old), len(new)) - start, and the replacement is what
\* lies between them in new.
C3_EqualsReference ==
    (Called /\ old # new) =>
        /\ edit.status = "ok"
        /\ edit.start = RefPrefix(old, new)
        /\ ByteLen(old) - edit.end = RefSuffix(old, new)
        /\ edit.replacement =
              Slice(as_bytes(new), RefPrefix(old, new), ByteLen(new) - RefSuffix(old, new))

\* What the code does guarantee: a call that returns gives the round trip
\* and the reference edit.
ReturnedEditIsReference ==
    (Called /\ edit.status = "ok" /\ old # new) =>
        /\ ApplyBytes(old, edit) = as_bytes(new)
        /\ edit.start = RefPrefix(old, new)
        /\ ByteLen(old) - edit.end = RefSuffix(old, new)
        /\ is_char_boundary(old, edit.end)

\* The prefix and suffix lengths the call computed.
PrefixOf(e) == e.start

SuffixOf(e) == ByteLen(old) - e.end

\* C25: in compute_minimal_text_edit the suffix never overlaps the prefix in
\* either string: prefix + suffix <= min(len(old), len(new)) at every step
\* of the suffix loop, so len - prefix and len - 1 - suffix never underflow,
\* start <= end, and the replacement range prefix..len(new)-suffix is
\* non-negative; "aa" against "aaa" is not over-counted.
C25_SuffixStaysClearOfPrefix ==
    (Called /\ edit.status # "assert") =>
        /\ PrefixOf(edit) >= 0
        /\ PrefixOf(edit) <= Min(ByteLen(old), ByteLen(new))
        /\ \A k \in 0..SuffixOf(edit) :
                PrefixOf(edit) + k <= Min(ByteLen(old), ByteLen(new))
        /\ \A k \in 0..(SuffixOf(edit) - 1) :
                /\ ByteLen(old) - 1 - k >= PrefixOf(edit)
                /\ ByteLen(new) - 1 - k >= PrefixOf(edit)
        /\ SuffixOf(edit) >= 0
        /\ edit.start <= edit.end
        /\ edit.end <= ByteLen(old)
        /\ edit.start <= edit.replacement_end
        /\ edit.replacement_end = ByteLen(new) - SuffixOf(edit)
        /\ (old = <<97, 97>> /\ new = <<97, 97, 97>>) =>
                (edit.start = 2 /\ edit.end = 2 /\ edit.replacement = <<97>>)

\* "aa" against "aaa": the prefix takes both bytes of old and leaves the
\* suffix none.
C25_Witness ==
    /\ Called
    /\ old = <<97, 97>>
    /\ new = <<97, 97, 97>>
    /\ edit.status = "ok"
    /\ edit.start = 2
    /\ edit.end = 2

\* b is a with a non-empty text inserted after its first i codepoints.
Inserted(a, b, i) ==
    /\ Len(b) > Len(a)
    /\ SubSeq(b, 1, i) = SubSeq(a, 1, i)
    /\ SubSeq(b, i + 1 + (Len(b) - Len(a)), Len(b)) = SubSeq(a, i + 1, Len(a))

\* The text inserted.
InsertedText(a, b, i) == SubSeq(b, i + 1, i + (Len(b) - Len(a)))

\* C26: pure insertions and deletions get degenerate edits.  If new is old
\* with a non-empty x inserted, the call returns start = end and a
\* replacement of len(x) bytes; an append gives exactly (len(old), len(old),
\* x); a prepend whose first codepoint differs from old's gives exactly
\* (0, 0, x).  If new is old with a non-empty substring removed, the
\* replacement is empty and end - start is the removed length.
C26_InsertionsAndDeletionsAreDegenerate ==
    Called =>
        /\ \A i \in 0..Len(old) :
                Inserted(old, new, i) =>
                    /\ edit.status = "ok"
                    /\ edit.start = edit.end
                    /\ Len(edit.replacement) = ByteLen(InsertedText(old, new, i))
        /\ Inserted(old, new, Len(old)) =>
                /\ edit.status = "ok"
                /\ edit.start = ByteLen(old)
                /\ edit.end = ByteLen(old)
                /\ edit.replacement = as_bytes(InsertedText(old, new, Len(old)))
        /\ (Inserted(old, new, 0) /\ (old = <<>> \/ new[1] # old[1])) =>
                /\ edit.status = "ok"
                /\ edit.start = 0
                /\ edit.end = 0
                /\ edit.replacement = as_bytes(InsertedText(old, new, 0))
        /\ \A i \in 0..Len(new) :
                Inserted(new, old, i) =>
                    /\ edit.status = "ok"
                    /\ edit.replacement = <<>>
                    /\ edit.end - edit.start = ByteLen(InsertedText(new, old, i))

\* A two-byte codepoint inserted between a two-byte codepoint and an ASCII
\* one: the edit is the empty range at byte 2 with the two inserted bytes.
C26_Witness ==
    /\ Called
    /\ old = <<233, 97>>
    /\ new = <<233, 169, 97>>
    /\ edit.status = "ok"
    /\ edit.start = 2
    /\ edit.end = 2
    /\ edit.replacement = <<194, 169>>

\* ------------------------------------------- claims: the watched config

Searched == IsSome(found)

\* The root-relative path p is one of the patterns.
Covered(p, patterns) == \E k \in 1..Len(patterns) : patterns[k] = p

\* The options carry a non-empty config-path override naming a missing file.
OverrideMissing ==
    LET options == deserialize_or_default(configOptions)
    IN  /\ IsSome(options.config_path)
        /\ Unwrap(options.config_path) # ""
        /\ Unwrap(options.config_path) \notin rootFiles

\* C31: for every options value and every set of files in the project
\* root, the config file that build loads (find_config_path's result) is
\* covered by the watch patterns get_watcher_patterns reports for the same
\* options, the fall-back from a missing override to a default config file
\* name included.
C31_LoadedConfigIsWatched ==
    (Searched /\ IsSome(Unwrap(found).config)) =>
        Covered(Unwrap(Unwrap(found).config), Unwrap(found).patterns)

\* What the code guarantees: the loaded file is watched unless the search
\* fell back from a missing override, and then it never is.
LoadedConfigIsWatchedUnlessFallback ==
    (Searched /\ IsSome(Unwrap(found).config)) =>
        (Covered(Unwrap(Unwrap(found).config), Unwrap(found).patterns)
            <=> ~OverrideMissing)

\* ------------------------------------------- claims: the workspace registry

Instances == 1..built

CallsOf(i, op) == {k \in 1..Len(calls) : calls[k].inst = i /\ calls[k].op = op}

\* The instance i obtained a workspace handle.
Obtained(i) == \E k \in CallsOf(i, "create_workspace") : calls[k].ok

HandleOf(i) == calls[CHOOSE k \in CallsOf(i, "create_workspace") : calls[k].ok].handle

\* The instance i failed to initialise the engine or to create its workspace.
FailedBuild(i) ==
    \/ \E k \in CallsOf(i, "init") : ~calls[k].ok
    \/ \E k \in CallsOf(i, "create_workspace") : ~calls[k].ok

\* C4: per instance, create_workspace is called at most once, during
\* construction and right after an init that returned Ok; the handle the
\* instance holds is the one it obtained; and an obtained handle is deleted
\* exactly once, with that handle, by the drop of that instance and not
\* before.
C4_CreateOnceDeleteOnce ==
    /\ \A i \in Instances :
        /\ Cardinality(CallsOf(i, "create_workspace")) <= 1
        /\ \A k \in CallsOf(i, "create_workspace") :
            /\ calls[k].during = "build"
            /\ k > 1
            /\ calls[k - 1].op = "init" /\ calls[k - 1].inst = i /\ calls[k - 1].ok
        /\ \A k \in CallsOf(i, "delete_workspace") :
            /\ Obtained(i)
            /\ calls[k].handle = HandleOf(i)
            /\ calls[k].during = "drop"
        /\ Obtained(i) =>
            Cardinality(CallsOf(i, "delete_workspace")) = IF i \in dropped THEN 1 ELSE 0
        /\ ~Obtained(i) => CallsOf(i, "delete_workspace") = {}
    /\ IsSome(tool) =>
        Unwrap(tool).workspace_handle =
            IF Obtained(Unwrap(tool).id) THEN HandleOf(Unwrap(tool).id) ELSE None

\* An instance that obtained a handle has been dropped.
C4_Witness ==
    \E i \in dropped : Obtained(i) /\ CallsOf(i, "delete_workspace") # {}

\* The workspaces live after the calls cs[1..n]: created and delete not yet
\* called.
Live(n) ==
    {calls[k].handle[1] : k \in {j \in 1..n : calls[j].op = "create_workspace" /\ calls[j].ok}}
    \ {calls[k].handle[1] : k \in {j \in 1..n : calls[j].op = "delete_workspace"}}

\* C5: across any sequence of replacements, at every point in time at most
\* one workspace created for the root is live.
C5_AtMostOneLiveWorkspace ==
    \A n \in 0..Len(calls) : Cardinality(Live(n)) <= 1

\* What the code does guarantee: never more than two, and one at most
\* whenever the host has applied the changes.
AtMostOneLiveWhenApplied ==
    /\ \A n \in 0..Len(calls) : Cardinality(Live(n)) <= 2
    /\ pending = None => Cardinality(Live(Len(calls))) <= 1

\* C6: an instance whose init or create_workspace failed is disabled for
\* good: no create_workspace after a failed init, none after a failed one,
\* neither bridge nor handle held, no format_file from its run_format, no
\* delete_workspace from its drop.
C6_DisabledForLife ==
    /\ \A i \in Instances : FailedBuild(i) =>
        /\ (\E k \in CallsOf(i, "init") : ~calls[k].ok) => CallsOf(i, "create_workspace") = {}
        /\ Cardinality(CallsOf(i, "create_workspace")) <= 1
        /\ Cardinality(CallsOf(i, "init")) = 1
        /\ CallsOf(i, "delete_workspace") = {}
    /\ (IsSome(tool) /\ FailedBuild(Unwrap(tool).id)) =>
        /\ ~Unwrap(tool).external_bridge
        /\ Unwrap(tool).workspace_handle = None
    /\ (IsSome(pending) /\ IsSome(Unwrap(pending).changes.tool)
            /\ FailedBuild(Unwrap(Unwrap(pending).changes.tool).id)) =>
        /\ ~Unwrap(Unwrap(pending).changes.tool).external_bridge
        /\ Unwrap(Unwrap(pending).changes.tool).workspace_handle = None
    /\ (IsSome(resp) /\ FailedBuild(Unwrap(resp).inst)) =>
        Unwrap(resp).out.format_file = None
    /\ \A f \in inflight : ~FailedBuild(f.inst)

\* An instance whose create_workspace failed has been dropped after an
\* earlier instance served, and another such instance has just answered a
\* request for an externally formatted file.
C6_Witness ==
    /\ \E i \in dropped : \E k \in CallsOf(i, "create_workspace") : ~calls[k].ok
    /\ IsSome(resp)
    /\ FailedBuild(Unwrap(resp).inst)
    /\ Unwrap(resp).req.strategy = Some("ExternalFormatter")
    /\ Unwrap(resp).req.resolved = "ExternalFormatter"

\* The instances whose delete_workspace returned an error.
FailedDelete == {i \in Instances : \E k \in CallsOf(i, "delete_workspace") : ~calls[k].ok}

\* C20: when delete_workspace returns an error during the teardown of an
\* Active instance, the error is only logged: the teardown completes (the
\* instance is gone and the host goes on, with the replacement or stopped),
\* the error reaches nobody, and delete_workspace is not called a second
\* time.
C20_DeleteErrorOnlyLogged ==
    \A i \in FailedDelete :
        /\ Obtained(i)
        /\ i \in dropped
        /\ Cardinality(CallsOf(i, "delete_workspace")) = 1
        /\ \A k \in CallsOf(i, "delete_workspace") :
                \A j \in (k + 1)..Len(calls) : calls[j].inst # i
        /\ phase \in {"serving", "stopped"}
        /\ phase = "serving" => (IsSome(tool) /\ Unwrap(tool).id > i)
        /\ phase = "stopped" => tool = None
        /\ IsSome(tool) => Unwrap(tool).id \notin dropped

\* The deletion of an instance's workspace failed, and its replacement,
\* which holds a workspace of its own, has answered a request since.
C20_Witness ==
    /\ \E i \in FailedDelete : i \in dropped
    /\ phase = "serving"
    /\ IsSome(resp)
    /\ Unwrap(resp).inst \notin dropped
    /\ IsSome(Unwrap(tool).workspace_handle)

\* The delete_workspace calls made so far for the workspace id w.
DeletesOf(w) ==
    {k \in 1..Len(calls) : calls[k].op = "delete_workspace" /\ calls[k].handle = Some(w)}

\* C27: every delete_workspace call is issued by the teardown of the
\* instance that obtained that handle from its own create_workspace, and
\* every format_file call carries the handle of the instance serving the
\* request; no format_file call is issued with a handle after
\* delete_workspace was invoked for it, across any sequence of requests and
\* replacements.
C27_HandlesStayWithTheirInstance ==
    /\ \A k \in 1..Len(calls) : calls[k].op = "delete_workspace" =>
            /\ calls[k].during = "drop"
            /\ calls[k].inst \in dropped
            /\ \E j \in 1..(k - 1) :
                    /\ calls[j].op = "create_workspace"
                    /\ calls[j].ok
                    /\ calls[j].inst = calls[k].inst
                    /\ calls[j].handle = calls[k].handle
            /\ \A j \in 1..Len(calls) :
                    (calls[j].op = "create_workspace" /\ calls[j].handle = calls[k].handle)
                        => calls[j].inst = calls[k].inst
    /\ (IsSome(resp) /\ IsSome(Unwrap(resp).out.format_file)) =>
            LET served == Unwrap(resp)
                w == Unwrap(served.out.format_file).workspace
            IN  /\ IsSome(tool)
                /\ served.inst = Unwrap(tool).id
                /\ served.inst \notin dropped
                /\ Obtained(served.inst)
                /\ HandleOf(served.inst) = Some(w)
                /\ DeletesOf(w) = {}
    /\ \A f \in inflight :
            /\ IsSome(tool)
            /\ f.inst = Unwrap(tool).id
            /\ f.inst \notin dropped
            /\ Obtained(f.inst)
            /\ HandleOf(f.inst) = Some(f.call.workspace)
            /\ DeletesOf(f.call.workspace) = {}
    /\ IsSome(dropping) => inflight = {}

\* The workspace of a first instance has been deleted by its teardown, and
\* its replacement has just called format_file on a workspace of its own.
C27_Witness ==
    /\ \E i \in dropped : Obtained(i) /\ CallsOf(i, "delete_workspace") # {}
    /\ IsSome(resp)
    /\ IsSome(Unwrap(resp).out.format_file)
    /\ Unwrap(resp).inst \notin dropped
    /\ Unwrap(resp).inst > 1

\* -------------------------------------------------- claims: the dispatcher

Answered == IsSome(resp)

\* The host is serving and nothing is under way.
Quiet == Idle /\ resp = None /\ inflight = {}

Req == Unwrap(resp).req

Out == Unwrap(resp).out

\* The text of the request: the caller's content, else the file's.
InputText(req) == IF IsSome(req.content) THEN Unwrap(req.content) ELSE Unwrap(req.disk)

ReachedCompute == \E k \in 1..Len(Out.steps) : Out.steps[k] = "build_text_edits"

\* C8 as stated: run_format never reaches compute_minimal_text_edit with
\* old = new, and a direct call with equal texts trips the assertion,
\* whatever the build.
C8_DirectCallTripsAssertion ==
    /\ Answered =>
        /\ ReachedCompute => Unwrap(Out.old_text) # Unwrap(Out.code)
        /\ (IsSome(Out.code) /\ Out.old_text = Out.code) =>
                (Out.result = "Some" /\ Out.edits = <<>>)
    /\ Quiet =>
        \A t \in DocTexts : build_text_edits(t, t, debugBuild).status = "assert"

\* The one edit at the end of text t that inserts nothing.
EmptyEditAtEnd(t) ==
    <<[start    |-> get_line_column(Len(as_bytes(t)), t),
       end      |-> get_line_column(Len(as_bytes(t)), t),
       new_text |-> <<>>]>>

\* C8: run_format never reaches compute_minimal_text_edit with old = new:
\* build_text_edits is called only with a final text that differs from the
\* text passed as old, and equal texts give the empty edit list; a direct
\* call with equal texts trips the assertion where debug assertions are
\* compiled in, and returns one empty edit at the end of the text where
\* they are not.
C8_ComputeNeverReachedWithEqualTexts ==
    /\ Answered =>
        /\ ReachedCompute => Unwrap(Out.old_text) # Unwrap(Out.code)
        /\ (IsSome(Out.code) /\ Out.old_text = Out.code) =>
                (Out.result = "Some" /\ Out.edits = <<>>)
    /\ Quiet =>
        \A t \in DocTexts :
            /\ build_text_edits(t, t, TRUE).status = "assert"
            /\ build_text_edits(t, t, FALSE) = [status |-> "ok", edits |-> EmptyEditAtEnd(t)]

\* The engine returned the very text it was sent, for each of the three
\* formatting variants in turn (here the manifest one, key-sorted first).
C8_Witness ==
    /\ Answered
    /\ Req.strategy = Some("ExternalFormatterPackageJson")
    /\ Req.sort_package_json
    /\ IsSome(Out.format_file)
    /\ IsSome(Out.code)
    /\ Out.old_text = Out.code
    /\ Unwrap(Out.code) # InputText(Req)

\* C9: a request that reached an engine and succeeded returns the empty edit
\* list exactly when the result text equals the request's input text, and a
\* list of exactly one edit otherwise; for the native, the external and the
\* manifest variant, key-sorting included.
C9_EmptyIffUnchanged ==
    (Answered /\ Out.result = "Some") =>
        /\ Out.edits = <<>> <=> Unwrap(Out.code) = InputText(Req)
        /\ Out.edits # <<>> => Len(Out.edits) = 1

\* What the code does guarantee: the comparison is with the text handed to
\* the engine, which is the input text unless the manifest was key-sorted.
EmptyIffEqualsTextSent ==
    (Answered /\ Out.result = "Some") =>
        /\ Out.edits = <<>> <=> Out.code = Out.old_text
        /\ Out.edits # <<>> => Len(Out.edits) = 1
        /\ ~(Req.strategy = Some("ExternalFormatterPackageJson") /\ Req.sort_package_json)
                => Unwrap(Out.old_text) = InputText(Req)

\* The instance that served the request.
Server == Unwrap(resp).tool

Did(step) == \E k \in 1..Len(Out.steps) : Out.steps[k] = step

\* The path of the request is matched by the ignore set of the instance.
Ignored == Req.uriIsFile /\ Server.gitignore_glob /\ Req.underRoot /\ Req.globMatch

\* C14: run_format on a path matched by the active ignore set returns None
\* whatever the file's variant, content or supplied in-memory text, and the
\* ignore check comes first: no source read, no classification, no parse and
\* no bridge call happens for an ignored file.
C14_IgnoredIsSkippedFirst ==
    (Answered /\ Ignored) =>
        /\ Out.result = "None"
        /\ Out.edits = <<>>
        /\ Out.steps = <<"is_ignored">>
        /\ Out.format_file = None

\* An ignored file of the external variant was asked for without in-memory
\* text, on an instance holding a workspace, with an engine that would have
\* changed the text on disk.
C14_Witness ==
    /\ Answered
    /\ Ignored
    /\ Req.content = None
    /\ IsSome(Req.disk)
    /\ Req.strategy = Some("ExternalFormatter")
    /\ Req.resolved = "ExternalFormatter"
    /\ IsSome(Req.engineRes)
    /\ Req.engineRes # Req.disk
    /\ Server.external_bridge
    /\ IsSome(Server.workspace_handle)
    /\ Out.result = "None"

\* run_format returned at its ignore check.
SkippedAsIgnored == Req.uriIsFile /\ Out.steps = <<"is_ignored">>

\* C15: is_ignored is true only if the path lies under the ignore root and
\* the glob set reports an ignore match for the path or one of its parents;
\* a path outside the ignore root is never ignored even if a pattern would
\* match it, and an instance whose glob set failed to build ignores nothing.
C15_IgnoredOnlyUnderRootAndMatched ==
    (Answered /\ Req.uriIsFile) =>
        /\ SkippedAsIgnored =>
                (Server.gitignore_glob /\ Req.underRoot /\ Req.globMatch)
        /\ (~Req.underRoot /\ Req.globMatch) => ~SkippedAsIgnored
        /\ ~Server.gitignore_glob => ~SkippedAsIgnored
        /\ ~SkippedAsIgnored => Len(Out.steps) >= 2

\* A file outside the ignore root that a pattern would match was formatted
\* by an instance that has a glob set.
C15_Witness ==
    /\ Answered
    /\ Req.uriIsFile
    /\ Server.gitignore_glob
    /\ ~Req.underRoot
    /\ Req.globMatch
    /\ Out.result = "Some"
    /\ Len(Out.edits) = 1

\* The file of the request goes to the foreign engine.
ExternalVariant ==
    Req.strategy \in {Some("ExternalFormatter"), Some("ExternalFormatterPackageJson")}

\* C16: for a file classified as the external or the manifest variant, if
\* the instance has no bridge or no workspace handle, run_format returns
\* None without invoking any bridge operation and without resolving options
\* or sorting.
C16_NoBridgeNoEdit ==
    (Answered /\ ExternalVariant
        /\ (~Server.external_bridge \/ Server.workspace_handle = None)) =>
        /\ Out.result = "None"
        /\ Out.format_file = None
        /\ ~Did("format_file")
        /\ ~Did("resolve")
        /\ ~Did("sort")

\* An instance that was given a bridge and lost it at construction was asked
\* for a manifest whose options, sort and engine would all have answered.
C16_Witness ==
    /\ Answered
    /\ builderBridge
    /\ ~Server.external_bridge
    /\ Req.uriIsFile
    /\ ~Ignored
    /\ IsSome(Req.content)
    /\ Req.strategy = Some("ExternalFormatterPackageJson")
    /\ Req.resolved = "ExternalFormatterPackageJson"
    /\ Req.sort_package_json
    /\ IsSome(Req.sortRes)
    /\ IsSome(Req.engineRes)
    /\ Out.result = "None"
    /\ Did("classify")

\* The positions of a step in what run_format did.
StepsAt(step) == {k \in 1..Len(Out.steps) : Out.steps[k] = step}

\* C17: for a manifest file with sort enabled, the code handed to
\* format_file is the key-sorted text, and the sort comes before the single
\* engine call, never after; with sort disabled it is the unmodified source;
\* and if the engine is unavailable, the sort fails, or format_file returns
\* an error, run_format returns None, not a sorted-but-unformatted edit: a
\* result other than None has been through format_file.
C17_SortThenFormat ==
    (Answered /\ Req.strategy = Some("ExternalFormatterPackageJson")) =>
        /\ Cardinality(StepsAt("format_file")) <= 1
        /\ Did("format_file") <=> IsSome(Out.format_file)
        /\ (Did("format_file") /\ Req.sort_package_json) =>
                /\ IsSome(Req.sortRes)
                /\ Unwrap(Out.format_file).code = Unwrap(Req.sortRes)
                /\ Cardinality(StepsAt("sort")) = 1
                /\ \A i \in StepsAt("sort"), j \in StepsAt("format_file") : i + 1 = j
        /\ (Did("format_file") /\ ~Req.sort_package_json) =>
                /\ Unwrap(Out.format_file).code = InputText(Req)
                /\ ~Did("sort")
        /\ (~Server.external_bridge \/ Server.workspace_handle = None) =>
                Out.result = "None"
        /\ (Req.sort_package_json /\ Req.sortRes = None) =>
                (Out.result = "None" /\ ~Did("format_file"))
        /\ Req.engineRes = None => Out.result = "None"
        /\ Out.result # "None" =>
                /\ Did("format_file")
                /\ Out.code = Some(apply_insert_final_newline(Unwrap(Req.engineRes),
                                                              Req.insert_final_newline))

\* The sort changed the manifest, the engine was sent the sorted text and
\* changed it again, and one edit came back.
C17_Witness ==
    /\ Answered
    /\ Req.strategy = Some("ExternalFormatterPackageJson")
    /\ Req.sort_package_json
    /\ IsSome(Req.sortRes)
    /\ IsSome(Out.format_file)
    /\ Unwrap(Out.format_file).code = Unwrap(Req.sortRes)
    /\ Unwrap(Req.sortRes) # InputText(Req)
    /\ Out.result = "Some"
    /\ Len(Out.edits) = 1

\* The failures C18 lists: format_file returned an error, the parser
\* reported errors, the resolved options are of another variant, the path
\* was not classified, the source could not be read.
Unformattable ==
    \/ Did("format_file") /\ Req.engineRes = None
    \/ Req.strategy = Some("OxcFormatter") /\ Req.parseErrors
    \/ IsSome(Req.strategy) /\ Req.resolved # Unwrap(Req.strategy)
    \/ Req.strategy = None
    \/ Req.content = None /\ Req.disk = None

\* C18: run_format never fails loudly: it returns None or an edit list and
\* does not panic; when format_file returns an error, the parser reports an
\* error, the resolved options do not match the variant, the path cannot be
\* classified or the source cannot be read, it returns None; and the
\* instance is left as it was (same bridge, same handle), so later requests
\* on it still use the external path.
C18_NeverFailsLoudly ==
    Answered =>
        /\ Out.result \in {"None", "Some"}
        /\ Unformattable => Out.result = "None"
        /\ tool = Some(Server)

\* What the code does guarantee: the listed failures give None and leave
\* the instance as it was; a panic comes only out of build_text_edits.
ListedFailuresGiveNone ==
    Answered =>
        /\ Unformattable => (Out.result = "None" /\ Out.edits = <<>>)
        /\ tool = Some(Server)
        /\ Out.result = "Panic" => (ReachedCompute /\ ~Unformattable)

\* C22: for a file classified as the passthrough (project config) variant
\* run_format returns None unconditionally: whatever the content, whether
\* or not bridge and handle are present, and without resolving options or
\* calling any engine.
C22_PassthroughIsNone ==
    (Answered /\ Req.strategy = Some("OxfmtToml")) =>
        /\ Out.result = "None"
        /\ Out.edits = <<>>
        /\ Out.format_file = None
        /\ \A step \in {"resolve", "parse", "format", "sort", "format_file",
                          "build_text_edits"} : ~Did(step)

\* A project config file with in-memory text was sent to an instance that
\* holds bridge and workspace, and was classified.
C22_Witness ==
    /\ Answered
    /\ Req.strategy = Some("OxfmtToml")
    /\ Server.external_bridge
    /\ IsSome(Server.workspace_handle)
    /\ IsSome(Req.content)
    /\ Unwrap(Req.content) # <<>>
    /\ Did("classify")
    /\ Out.result = "None"

\* The same request with the file on disk holding d (None: unreadable).
WithDisk(d) == [Req EXCEPT !.disk = d]

\* The result is the same whatever is on disk, and the file is not read.
DiskIsNotConsulted ==
    /\ ~Did("read")
    /\ \A d \in Option(DocTexts) : run_format(Server, WithDisk(d)) = Out

\* C23: when the caller supplies in-memory content, run_format formats
\* exactly that content and never reads the file: the same path and content
\* give the same result whatever the on-disk content (even if the file is
\* missing), and the text sent to the engine and used as old text of the
\* edit is the supplied content.
C23_SuppliedContentWins ==
    (Answered /\ Req.uriIsFile /\ IsSome(Req.content)) =>
        /\ DiskIsNotConsulted
        /\ IsSome(Out.format_file) => Unwrap(Out.format_file).code = Unwrap(Req.content)
        /\ IsSome(Out.old_text) => Unwrap(Out.old_text) = Unwrap(Req.content)

\* What the code does guarantee: the disk is never consulted, and the
\* supplied content is what goes to the engine and into the edit except for
\* a manifest that was key-sorted first.
SuppliedContentWinsUnlessSorted ==
    (Answered /\ Req.uriIsFile /\ IsSome(Req.content)) =>
        /\ DiskIsNotConsulted
        /\ ~(Req.strategy = Some("ExternalFormatterPackageJson") /\ Req.sort_package_json) =>
            /\ IsSome(Out.format_file) =>
                    Unwrap(Out.format_file).code = Unwrap(Req.content)
            /\ IsSome(Out.old_text) => Unwrap(Out.old_text) = Unwrap(Req.content)

\* The position (line, UTF-16 column) of the boundary after the first n
\* codepoints of t.
PositionAt(t, n) == get_line_column(PrefixBytes(t, n), t)

\* The text (as bytes) a client gets by applying the edit e to t; <<"none">>
\* when a position of e is no position of t.
ApplyEdit(t, e) ==
    IF \E a \in 0..Len(t), b \in 0..Len(t) :
            a <= b /\ PositionAt(t, a) = e.start /\ PositionAt(t, b) = e.end
    THEN LET a == CHOOSE a \in 0..Len(t) : PositionAt(t, a) = e.start
             b == CHOOSE b \in 0..Len(t) : PositionAt(t, b) = e.end
         IN  as_bytes(SubSeq(t, 1, a)) \o e.new_text \o as_bytes(SubSeq(t, b + 1, Len(t)))
    ELSE <<"none">>

ReturnedOneEdit == Answered /\ Out.result = "Some" /\ Len(Out.edits) = 1

\* C28: whenever run_format returns a single edit, applying that edit to the
\* text of the request (the supplied content, else the on-disk source)
\* yields exactly the final formatted text, in every variant, the manifest
\* variant with key-sorting included.
C28_EditAppliesToRequestText ==
    ReturnedOneEdit =>
        ApplyEdit(InputText(Req), Out.edits[1]) = as_bytes(Unwrap(Out.code))

\* What the code guarantees: the edit applies to the text it was computed
\* against, which is the text of the request except in the manifest variant
\* with key-sorting on.
EditAppliesToOldText ==
    ReturnedOneEdit =>
        /\ ApplyEdit(Unwrap(Out.old_text), Out.edits[1]) = as_bytes(Unwrap(Out.code))
        /\ ~(Req.resolved = "ExternalFormatterPackageJson" /\ Req.sort_package_json)
                => Unwrap(Out.old_text) = InputText(Req)

\* The engine result of the request answered: the native formatter's output
\* or what format_file returned.
Raw == IF Req.resolved = "OxcFormatter" THEN Req.nativeOut ELSE Unwrap(Req.engineRes)

\* c is t without a tail of whitespace, and no whitespace is left at its end.
IsTrimOf(c, t) ==
    /\ Len(c) <= Len(t)
    /\ c = SubSeq(t, 1, Len(c))
    /\ \A k \in (Len(c) + 1)..Len(t) : is_whitespace(t[k])
    /\ c # <<>> => ~is_whitespace(c[Len(c)])

\* C29: the final-newline policy is applied to every engine result before
\* the equality check: with the flag false all trailing whitespace is
\* removed, not only one newline; with the flag true the engine output is
\* left unchanged, no newline added; the operation is idempotent and
\* changes nothing but trailing whitespace.
C29_FinalNewlinePolicy ==
    /\ (Answered /\ IsSome(Out.code)) =>
            LET code == Unwrap(Out.code)
            IN  /\ ~Req.insert_final_newline => IsTrimOf(code, Raw)
                /\ Req.insert_final_newline => code = Raw
                /\ apply_insert_final_newline(code, Req.insert_final_newline) = code
                /\ (Out.result = "Some" /\ Out.edits = <<>>) <=> code = Unwrap(Out.old_text)
    /\ Quiet =>
            \A t \in Texts :
                /\ IsTrimOf(apply_insert_final_newline(t, FALSE), t)
                /\ apply_insert_final_newline(t, TRUE) = t
                /\ \A nl \in BOOLEAN :
                        apply_insert_final_newline(apply_insert_final_newline(t, nl), nl)
                            = apply_insert_final_newline(t, nl)

\* The native formatter returned a lone no-break space for an empty
\* document with the flag false: the trimmed result equals the document and
\* the answer is the empty edit list.
C29_Witness ==
    /\ Answered
    /\ Req.resolved = "OxcFormatter"
    /\ ~Req.insert_final_newline
    /\ Req.nativeOut = <<160>>
    /\ Out.code = Some(<<>>)
    /\ Out.old_text = Some(<<>>)
    /\ Out.result = "Some"
    /\ Out.edits = <<>>

\* C24: strategy classification is total and deterministic: every path
\* maps to exactly one variant, or to skip when no engine claims it; a
\* manifest-named file gets the manifest variant although its extension is
\* one of the foreign engine's; and run_format dispatches on exactly that
\* one variant: only the steps of the branch of the path's variant are taken.
C24_OneVariantPerPath ==
    /\ \A p \in Paths : try_from(p) \in Option(Strategies)
    /\ \A p \in Paths : p.file_name = "package.json" =>
            try_from(p) = Some("ExternalFormatterPackageJson")
    /\ \E p \in Paths : /\ p.file_name # "package.json"
                         /\ p.extension = "json"
                         /\ try_from(p) = Some("ExternalFormatter")
    /\ (Answered /\ Req.uriIsFile) =>
        /\ (Did("parse") \/ Did("format")) => Req.path.extension = "ts"
        /\ Did("sort") => Req.path.file_name = "package.json"
        /\ Did("format_file") => Req.path.extension = "json"
        /\ (Did("format_file") /\ Req.sort_package_json) =>
                (Did("sort") <=> Req.path.file_name = "package.json")
        /\ Req.path.extension \in {"toml", ""} => ~Did("resolve")
        /\ Did("resolve") =>
                \/ Out.steps[Len(Out.steps)] = "resolve"
                \/ /\ Req.resolved = "OxcFormatter" <=> Req.path.extension = "ts"
                   /\ Req.resolved = "ExternalFormatterPackageJson"
                        <=> Req.path.file_name = "package.json"

\* A manifest went down the manifest branch: it was key-sorted and sent to
\* the engine that also formats the other files with its extension.
C24_Witness ==
    /\ Answered
    /\ Req.path = [file_name |-> "package.json", extension |-> "json"]
    /\ Did("sort")
    /\ Did("format_file")
    /\ Out.result = "Some"

\* ------------------------------------------------ claims: reconfiguration

Returned == IsSome(pending)

Handled == Unwrap(pending)

\* C10: handle_configuration_change with old and new options that
\* deserialize to equal values returns neither instance nor watch patterns,
\* builds nothing and makes no bridge call.
C10_EqualOptionsNoRestart ==
    (Returned /\ Handled.op = "configuration_change"
        /\ deserialize_or_default(Handled.old) = deserialize_or_default(Handled.new)) =>
        /\ Handled.changes.tool = None
        /\ Handled.changes.watch_patterns = None
        /\ Handled.made = <<>>
        /\ built = Handled.built_before

\* Two different JSON values with equal options were handed in, to an
\* instance that holds a workspace.
C10_Witness ==
    /\ Returned
    /\ Handled.op = "configuration_change"
    /\ Handled.old # Handled.new
    /\ deserialize_or_default(Handled.old) = deserialize_or_default(Handled.new)
    /\ Handled.changes.tool = None
    /\ IsSome(Unwrap(tool).workspace_handle)

\* What a restart reports: a newly built instance and a non-empty pattern
\* list computed from the new configuration.
RestartReported ==
    /\ IsSome(Handled.changes.tool)
    /\ Unwrap(Handled.changes.tool).id = Handled.built_before + 1
    /\ built = Handled.built_before + 1
    /\ IsSome(Handled.changes.watch_patterns)
    /\ Len(Unwrap(Handled.changes.watch_patterns)) > 0
    /\ Unwrap(Handled.changes.watch_patterns) =
          LET o == deserialize_or_default(Handled.new)
          IN  IF IsSome(o.config_path) /\ Unwrap(o.config_path) # ""
              THEN <<Unwrap(o.config_path)>>
              ELSE <<".oxfmtrc.json", ".oxfmtrc.jsonc">>

\* C11 (as stated): handle_configuration_change with any new configuration
\* that differs from the old one returns a new instance together with a
\* freshly computed, non-empty watch-pattern list.
C11_DifferingConfigRestarts ==
    (Returned /\ Handled.op = "configuration_change" /\ Handled.old # Handled.new) =>
        RestartReported

\* C11 (amended): handle_configuration_change with a new configuration whose
\* deserialized options differ from the old one's returns a new instance
\* together with a freshly computed, non-empty watch-pattern list.
C11_DifferingOptionsRestart ==
    (Returned /\ Handled.op = "configuration_change"
        /\ deserialize_or_default(Handled.old) # deserialize_or_default(Handled.new)) =>
        RestartReported

\* The configuration changed from a custom config path to none, on an
\* instance that holds a workspace, and a replacement was returned.
C11_Witness ==
    /\ Returned
    /\ Handled.op = "configuration_change"
    /\ deserialize_or_default(Handled.old).config_path = Some("configs/formatter.json")
    /\ deserialize_or_default(Handled.new).config_path = None
    /\ IsSome(Handled.changes.tool)
    /\ Handled.changes.watch_patterns = Some(FORMAT_CONFIG_FILES)
    /\ IsSome(Unwrap(tool).workspace_handle)

\* The handler built an instance.
Rebuilt == Returned /\ Handled.op # "get_watcher_patterns" /\ IsSome(Handled.changes.tool)

\* C21: building an instance never fails because of configuration: options
\* JSON that does not deserialize gives the default options, a config file
\* that fails to load and a config that fails build_and_validate give the
\* default configuration, an ignore-glob build failure gives no ignore set;
\* in all these cases build returns an instance and still attempts init
\* and, init succeeding, create_workspace.
C21_BuildFallsBack ==
    /\ (Returned /\ Handled.op = "watched_file_change") => IsSome(Handled.changes.tool)
    /\ Rebuilt =>
        LET t == Unwrap(Handled.changes.tool)
        IN  /\ ~Handled.new.object => Handled.options = Some([config_path |-> None])
            /\ Handled.configRes \in {"load_failed", "invalid"} =>
                    t.config_resolver = "default"
            /\ Handled.configRes = "ok" => t.config_resolver = "loaded"
            /\ ~Handled.globOk => ~t.gitignore_glob
            /\ t.id = built
            /\ builderBridge =>
                    /\ Len(Handled.made) >= 1
                    /\ Handled.made[1].op = "init" /\ Handled.made[1].inst = t.id
                    /\ Handled.made[1].ok =>
                            /\ Len(Handled.made) = 2
                            /\ Handled.made[2].op = "create_workspace"
                            /\ Handled.made[2].inst = t.id

\* Options that do not deserialize, a config that does not validate and an
\* ignore set that does not build: the instance was built all the same and
\* obtained a workspace.
C21_Witness ==
    /\ Rebuilt
    /\ ~Handled.new.object
    /\ Handled.configRes = "invalid"
    /\ ~Handled.globOk
    /\ Unwrap(Handled.changes.tool).config_resolver = "default"
    /\ IsSome(Unwrap(Handled.changes.tool).workspace_handle)

\* C30: disablement is per instance, not per bridge: every instance built
\* (initial build, configuration change, watched-file change) calls init
\* and, if that succeeds, create_workspace again on the shared bridge,
\* whether the previous instance was Active or Disabled; so a replacement
\* of a Disabled instance may be Active and one of an Active instance may
\* be Disabled.
C30_EveryBuildInitialisesAgain ==
    /\ \A i \in Instances :
            IF builderBridge
            THEN /\ Cardinality(CallsOf(i, "init")) = 1
                 /\ \A k \in CallsOf(i, "init") :
                        /\ calls[k].during = "build"
                        /\ Cardinality(CallsOf(i, "create_workspace"))
                                = IF calls[k].ok THEN 1 ELSE 0
                        /\ calls[k].ok =>
                                (calls[k + 1].op = "create_workspace" /\ calls[k + 1].inst = i)
            ELSE \A k \in 1..Len(calls) : calls[k].inst # i
    /\ IsSome(tool) =>
            (Unwrap(tool).external_bridge <=> Obtained(Unwrap(tool).id))
    /\ Rebuilt =>
            LET made == Unwrap(Handled.changes.tool)
            IN  /\ made.id = Handled.built_before + 1
                /\ made.external_bridge <=> Obtained(made.id)
                /\ builderBridge =>
                        /\ Handled.made # <<>>
                        /\ Handled.made[1].op = "init"
                        /\ Handled.made[1].inst = made.id

\* An Active instance was replaced by a Disabled one, and that one by an
\* Active one, which the host holds now.
C30_Witness ==
    /\ built = 3
    /\ Obtained(1)
    /\ FailedBuild(2)
    /\ Obtained(3)
    /\ IsSome(tool)
    /\ Unwrap(tool).id = 3
    /\ Unwrap(tool).external_bridge
    /\ dropped = {1, 2}

\* C12: get_watcher_patterns returns exactly [config-path] when the options
\* carry a non-empty config-path override, and exactly the two default names
\* [".oxfmtrc.json", ".oxfmtrc.jsonc"], in that order, when the override is
\* absent, is the empty string, or the options fail to deserialize; the
\* result is never empty.
C12_WatcherPatterns ==
    (Returned /\ Handled.op = "get_watcher_patterns") =>
        LET json == Handled.new
            patterns == Unwrap(Handled.changes.watch_patterns)
            override == json.object /\ json.configPathIsString
                            /\ Unwrap(json.configPath) # ""
        IN  /\ override => patterns = <<Unwrap(json.configPath)>>
            /\ ~override => patterns = <<".oxfmtrc.json", ".oxfmtrc.jsonc">>
            /\ Len(patterns) > 0

\* The patterns were asked for with the empty string as config path.
C12_Witness ==
    /\ Returned
    /\ Handled.op = "get_watcher_patterns"
    /\ Handled.new.configPathIsString
    /\ Handled.new.configPath = Some("")
    /\ Handled.changes.watch_patterns = Some(<<".oxfmtrc.json", ".oxfmtrc.jsonc">>)

\* C13: handle_watched_file_change rebuilds unconditionally: for every
\* changed URI (config file or not) it returns a newly built replacement
\* instance (built by this call, with the bridge initialised anew when there
\* is one) and no watch-pattern update.
C13_WatchedFileChangeRebuilds ==
    (Returned /\ Handled.op = "watched_file_change") =>
        /\ IsSome(Handled.changes.tool)
        /\ Unwrap(Handled.changes.tool).id = Handled.built_before + 1
        /\ built = Handled.built_before + 1
        /\ Unwrap(Handled.changes.tool) # Unwrap(tool)
        /\ builderBridge =>
                /\ Len(Handled.made) >= 1
                /\ Handled.made[1].op = "init"
                /\ Handled.made[1].inst = Handled.built_before + 1
        /\ Handled.changes.watch_patterns = None

\* A change of a file that is no config file was reported to an instance
\* that holds a workspace, and the replacement obtained one of its own.
C13_Witness ==
    /\ Returned
    /\ Handled.op = "watched_file_change"
    /\ Handled.changed_uri = "src/index.ts"
    /\ IsSome(Unwrap(tool).workspace_handle)
    /\ IsSome(Handled.changes.tool)
    /\ IsSome(Unwrap(Handled.changes.tool).workspace_handle)
    /\ Handled.changes.watch_patterns = None

\* ------------------------------------------------- the cross-runtime bridge
\* NapiExternalFormatterBridge: each operation is
\*     block_in_place(|| self.formatter.op(..))
\* and formatter.op is block_on(async { cb.call_async(..).await; promise.await }).
\* The callers are tasks of the scheduler whose workers also complete the
\* foreign calls.

\* Tasks that call the bridge at the same time.
NumCallers == 2

\* Worker slots of the scheduler.
NumWorkers == 1

Callers == 1..NumCallers

\* The operations of the ExternalFormatterBridge trait.
BridgeOps == {"init", "create_workspace", "delete_workspace", "format_file"}

\* The wrapped foreign callbacks: those behind the trait's operations, and
\* format_embedded, which the native formatter calls from its own threads.
WrapperOps == BridgeOps \cup {"format_embedded"}

\* What a foreign promise settles with: the value it resolves to, or the
\* reason it rejects with.
PromiseValues == {"v1", "v2"}

FreeSlots == NumWorkers - Cardinality({c \in Callers : bslot[c]})

\* Calling self.formatter.op(..) as it is: the caller keeps its slot.
direct_call(slot) == slot

\* tokio::task::block_in_place as the bridge uses it: the calling task gives
\* its worker slot back to the scheduler before the closure runs.
block_in_place(slot) == FALSE

\* The end of tokio::task::block_in_place: the thread takes a worker back
\* when the scheduler has one to spare (retake), and goes on without one
\* otherwise.
leave_blocking_section(slot, retake) == retake

\* A bridge that calls delete_workspace without a blocking section.
enters_blocking_section_but_for_delete(op) ==
    op \in {"init", "create_workspace", "format_file"}

\* Whether NapiExternalFormatterBridge wraps the operation in block_in_place.
enters_blocking_section(op) ==
    op \in {"init", "create_workspace", "delete_workspace", "format_file"}

\* The arguments of the call the caller c makes: each caller has identifiers
\* of its own.
CallArgs(c) ==
    [workspace_id |-> c,
     directory    |-> IF c = 1 THEN "/project" ELSE "/other",
     file_name    |-> IF c = 1 THEN "package.json" ELSE "style.css",
     parser_name  |-> IF c = 1 THEN "json-stringify" ELSE "css",
     tag_name     |-> IF c = 1 THEN "html" ELSE "graphql"]

\* Display of a u32
Display(n) == ToString(n)

\* The strings the wrappers build with format!, word by word (quotes and
\* punctuation left out); err is the Display of the napi error.
ErrorMessage(op, args, promise, err) ==
    LET name == CASE op = "init"             -> "initExternalFormatter"
                  [] op = "format_embedded"  ->
                        IF promise = "rejected" THEN "formatter" ELSE "formatting"
                  [] op = "format_file"      -> "formatFile"
                  [] op = "create_workspace" -> "createWorkspace"
                  [] op = "delete_workspace" -> "deleteWorkspace"
        what == CASE op = "init"             -> <<>>
                  [] op = "format_embedded"  -> <<"for", "tag", args.tag_name>>
                  [] op = "format_file"      ->
                        <<"for", "file", args.file_name, "parser", args.parser_name>>
                  [] op = "create_workspace" -> <<"for", "directory", args.directory>>
                  [] op = "delete_workspace" ->
                        <<"for", "workspace", Display(args.workspace_id)>>
    IN  IF promise = "rejected"
        THEN <<"JS", name, "promise", "rejected">> \o what \o <<err>>
        ELSE <<"Failed", "to", "call", "JS", name, "callback">> \o what \o <<err>>

\* A wrapper answering Ok for a rejected promise.
WrapperResult_swallowing_rejection(op, args, promise, value) ==
    CASE promise = "resolved"        -> [ok |-> TRUE,  value |-> value, error |-> <<>>]
      [] promise = "rejected"        -> [ok |-> TRUE,  value |-> value, error |-> <<>>]
      [] promise = "dispatch_failed" ->
            [ok |-> FALSE, value |-> "none",
             error |-> ErrorMessage(op, args, promise, "status")]

\* The Result a wrapper returns: Ok with the promise's value for a resolved
\* promise, Err with a message for a failed dispatch (err is the status of
\* call_async) and for a rejected promise (err is the rejection).
WrapperResult(op, args, promise, value) ==
    CASE promise = "resolved"        -> [ok |-> TRUE,  value |-> value, error |-> <<>>]
      [] promise = "rejected"        ->
            [ok |-> FALSE, value |-> "none",
             error |-> ErrorMessage(op, args, promise, value)]
      [] promise = "dispatch_failed" ->
            [ok |-> FALSE, value |-> "none",
             error |-> ErrorMessage(op, args, promise, "status")]

NoResult == [ok |-> FALSE, value |-> "none", error |-> <<>>]

InitBridge ==
    /\ NoSearch
    /\ old = <<>>
    /\ new = <<>>
    /\ debugBuild = TRUE
    /\ edit = NotCalled
    /\ builderBridge = TRUE
    /\ phase = "new"
    /\ tool = None
    /\ pending = None
    /\ calls = <<>>
    /\ built = 0
    /\ dropped = {}
    /\ issued = 0
    /\ resp = None
    /\ building = None
    /\ inflight = {}
    /\ dropping = None
    /\ bpc = [c \in Callers |-> "idle"]
    /\ bop = [c \in Callers |-> "init"]
    /\ bslot = [c \in Callers |-> FALSE]
    /\ bpromise = [c \in Callers |-> "none"]
    /\ bvalue = [c \in Callers |-> "none"]
    /\ bdispatched = [c \in Callers |-> 0]
    /\ bresult = [c \in Callers |-> NoResult]

\* The scheduler runs a task on a free worker; the task makes its first
\* bridge call (ServerFormatterBuilder::build, run_format or drop).
CallBridge(c) ==
    /\ bpc[c] = "idle"
    /\ FreeSlots > 0
    /\ \E op \in BridgeOps : bop' = [bop EXCEPT ![c] = op]
    /\ bpc' = [bpc EXCEPT ![c] = "called"]
    /\ bslot' = [bslot EXCEPT ![c] = TRUE]
    /\ bpromise' = [bpromise EXCEPT ![c] = "none"]
    /\ bvalue' = [bvalue EXCEPT ![c] = "none"]
    /\ bdispatched' = [bdispatched EXCEPT ![c] = 0]
    /\ bresult' = [bresult EXCEPT ![c] = NoResult]
    /\ UNCHANGED <<editVars, lifeVars, configVars>>

\* A thread of the native formatter, outside the scheduler, calls the
\* format_embedded wrapper: it takes no worker slot.
CallEmbedded(c) ==
    /\ bpc[c] = "idle"
    /\ bop' = [bop EXCEPT ![c] = "format_embedded"]
    /\ bpc' = [bpc EXCEPT ![c] = "called"]
    /\ bpromise' = [bpromise EXCEPT ![c] = "none"]
    /\ bvalue' = [bvalue EXCEPT ![c] = "none"]
    /\ bdispatched' = [bdispatched EXCEPT ![c] = 0]
    /\ bresult' = [bresult EXCEPT ![c] = NoResult]
    /\ UNCHANGED <<bslot, editVars, lifeVars, configVars>>

\* The bridge operation enters block_in_place, which gives the caller's
\* worker back, and the wrapper starts block_on(cb.call_async(..)): the
\* callback is queued, not yet called.  format_embedded has no blocking
\* section.
EnterBlocking(c) ==
    /\ bpc[c] = "called"
    /\ bslot' = [bslot EXCEPT ![c] = IF enters_blocking_section(bop[c])
                                     THEN block_in_place(bslot[c])
                                     ELSE direct_call(bslot[c])]
    /\ bpc' = [bpc EXCEPT ![c] = "dispatching"]
    /\ UNCHANGED <<bop, bpromise, bvalue, bdispatched, bresult, editVars, lifeVars,
                   configVars>>

\* cb.call_async(..).await completes: the foreign callback has been called
\* and gave its promise, or the dispatch failed.
Dispatch(c) ==
    /\ bpc[c] = "dispatching"
    /\ \E status \in {"pending", "dispatch_failed"} :
        bpromise' = [bpromise EXCEPT ![c] = status]
    /\ bdispatched' = [bdispatched EXCEPT ![c] = bdispatched[c] + 1]
    /\ bpc' = [bpc EXCEPT ![c] = "awaiting"]
    /\ UNCHANGED <<bop, bslot, bvalue, bresult, editVars, lifeVars, configVars>>

\* The foreign runtime settles the promise; its completion is run by a
\* worker of the scheduler, so it needs a free slot.
Settle(c) ==
    /\ bpc[c] = "awaiting"
    /\ bpromise[c] = "pending"
    /\ FreeSlots > 0
    /\ \E outcome \in {"resolved", "rejected"} :
        bpromise' = [bpromise EXCEPT ![c] = outcome]
    /\ \E v \in PromiseValues : bvalue' = [bvalue EXCEPT ![c] = v]
    /\ UNCHANGED <<bpc, bop, bslot, bdispatched, bresult, editVars, lifeVars, configVars>>

\* block_on returns the wrapper's Result and the blocking section ends:
\* the caller goes on with a worker of the scheduler when one is free and
\* the scheduler hands it back, and without one otherwise.  format_embedded
\* has no blocking section to leave.
Return(c) ==
    /\ bpc[c] = "awaiting"
    /\ bpromise[c] # "pending"
    /\ bresult' = [bresult EXCEPT ![c] =
                        WrapperResult(bop[c], CallArgs(c), bpromise[c], bvalue[c])]
    /\ bpc' = [bpc EXCEPT ![c] = "returned"]
    /\ \E retake \in {FALSE} \cup {t \in {TRUE} : FreeSlots > 0} :
        bslot' = [bslot EXCEPT ![c] = IF enters_blocking_section(bop[c])
                                         THEN leave_blocking_section(bslot[c], retake)
                                         ELSE direct_call(bslot[c])]
    /\ UNCHANGED <<bop, bpromise, bvalue, bdispatched, editVars, lifeVars, configVars>>

\* The task goes on to its next bridge call: a build whose init returned Ok
\* calls create_workspace, on the worker it took back or on none.
CallAgain(c) ==
    /\ bpc[c] = "returned"
    /\ bop[c] = "init"
    /\ bresult[c].ok
    /\ bop' = [bop EXCEPT ![c] = "create_workspace"]
    /\ bpc' = [bpc EXCEPT ![c] = "called"]
    /\ bpromise' = [bpromise EXCEPT ![c] = "none"]
    /\ bvalue' = [bvalue EXCEPT ![c] = "none"]
    /\ bdispatched' = [bdispatched EXCEPT ![c] = 0]
    /\ bresult' = [bresult EXCEPT ![c] = NoResult]
    /\ UNCHANGED <<bslot, editVars, lifeVars, configVars>>

\* The task finishes and leaves the worker it runs on, if any.
TaskEnd(c) ==
    /\ bpc[c] = "returned"
    /\ bpc' = [bpc EXCEPT ![c] = "idle"]
    /\ bslot' = [bslot EXCEPT ![c] = FALSE]
    /\ UNCHANGED <<bop, bpromise, bvalue, bdispatched, bresult, editVars, lifeVars, configVars>>

NextBridge ==
    \/ \E c \in Callers : CallBridge(c)
    \/ \E c \in Callers : CallEmbedded(c)
    \/ \E c \in Callers : EnterBlocking(c)
    \/ \E c \in Callers : Dispatch(c)
    \/ \E c \in Callers : Settle(c)
    \/ \E c \in Callers : Return(c)
    \/ \E c \in Callers : CallAgain(c)
    \/ \E c \in Callers : TaskEnd(c)

\* Bridge calls made by tasks of the scheduler.
SpecBridge == InitBridge /\ [][NextBridge]_vars

\* C7: a bridge operation called on a worker of the scheduler yields its
\* slot before it waits, so no reachable state is a deadlock (some step is
\* always possible), and a call whose promise has settled can return.
C7_YieldBeforeWait ==
    /\ \A c \in Callers : bpc[c] \in {"dispatching", "awaiting"} => ~bslot[c]
    /\ ENABLED NextBridge
    /\ \A c \in Callers :
        (bpc[c] = "awaiting" /\ bpromise[c] # "pending") => ENABLED Return(c)

\* Every worker-slot's worth of callers is waiting on a pending promise at
\* once, and the slots are free.
C7_Witness ==
    /\ \A c \in Callers : bpc[c] = "awaiting" /\ bpromise[c] = "pending"
    /\ FreeSlots = NumWorkers

\* C19: each of the five wrappers (init, format_embedded, format_file,
\* create_workspace, delete_workspace) dispatches the foreign callback
\* exactly once per call and never retries; it returns Ok with the promise's
\* value when the promise resolves, and an Err carrying a message both when
\* the dispatch fails and when the promise rejects.
C19_OneDispatchOkOrErr ==
    \A c \in Callers :
        /\ bop[c] \in WrapperOps
        /\ bpc[c] \in {"called", "dispatching"} => bdispatched[c] = 0
        /\ bpc[c] \in {"awaiting", "returned"} => bdispatched[c] = 1
        /\ bpc[c] = "awaiting" => ~ENABLED Dispatch(c)
        /\ bpc[c] = "returned" =>
            /\ ~ENABLED Dispatch(c)
            /\ bpromise[c] \in {"resolved", "rejected", "dispatch_failed"}
            /\ bpromise[c] = "resolved" =>
                    /\ bresult[c].ok
                    /\ bresult[c].value = bvalue[c]
                    /\ bvalue[c] \in PromiseValues
            /\ bpromise[c] \in {"rejected", "dispatch_failed"} =>
                    /\ ~bresult[c].ok
                    /\ bresult[c].error # <<>>

\* One call of format_embedded has returned the Err of a rejected promise
\* while a call of delete_workspace returned the Err of a failed dispatch.
C19_Witness ==
    \E c, d \in Callers :
        /\ bpc[c] = "returned" /\ bop[c] = "format_embedded"
        /\ bpromise[c] = "rejected" /\ ~bresult[c].ok
        /\ bpc[d] = "returned" /\ bop[d] = "delete_workspace"
        /\ bpromise[d] = "dispatch_failed" /\ ~bresult[d].ok
        /\ bdispatched[c] = 1 /\ bdispatched[d] = 1

\* The words of the message m.
Words(m) == {m[k] : k \in 1..Len(m)}

\* The name of the operation: that of the foreign callback the wrapper
\* calls.
OperationName(op) ==
    CASE op = "init"             -> "initExternalFormatter"
      [] op = "format_embedded"  -> "formatEmbeddedCode"
      [] op = "format_file"      -> "formatFile"
      [] op = "create_workspace" -> "createWorkspace"
      [] op = "delete_workspace" -> "deleteWorkspace"

\* The calls that have returned an Err.
Failed == {c \in Callers : bpc[c] = "returned" /\ ~bresult[c].ok}

\* C32: every error string produced by a bridge wrapper names its operation
\* and the identifiers relevant to the call: the directory for
\* create_workspace, the workspace id for delete_workspace, the tag for
\* format_embedded, and for format_file the workspace id and the file name.
C32_ErrorsNameWorkspaceAndFile ==
    \A c \in Failed :
        LET words == Words(bresult[c].error)
            args == CallArgs(c)
        IN  /\ OperationName(bop[c]) \in words
            /\ bop[c] = "create_workspace" => args.directory \in words
            /\ bop[c] = "delete_workspace" => Display(args.workspace_id) \in words
            /\ bop[c] = "format_embedded" => args.tag_name \in words
            /\ bop[c] = "format_file" =>
                    /\ Display(args.workspace_id) \in words
                    /\ args.file_name \in words

\* What the strings do carry: the name of the operation but for
\* format_embedded, the directory, the workspace id of delete_workspace and
\* the tag, and for format_file the file name without the workspace id.
ErrorsNameWhatTheWrappersFormat ==
    \A c \in Failed :
        LET words == Words(bresult[c].error)
            args == CallArgs(c)
        IN  /\ OperationName(bop[c]) \in words <=> bop[c] # "format_embedded"
            /\ bop[c] = "create_workspace" => args.directory \in words
            /\ bop[c] = "delete_workspace" => Display(args.workspace_id) \in words
            /\ bop[c] = "format_embedded" => args.tag_name \in words
            /\ bop[c] = "format_file" =>
                    /\ Display(args.workspace_id) \notin words
                    /\ args.file_name \in words
====
